---- MODULE Spec2Model ----
(***************************************************************************)
(* Model of the frame-extraction utilities of palindsay/video.             *)
(*                                                                         *)
(* Several families of scripts are modelled, each with its own             *)
(* specification over the shared variables:                                *)
(*   Spec / FairSpec / HangSpec  av1frameextractor3.py, av1frameextractor4 *)
(*                               (sequential main loop, process_video,     *)
(*                               extract_frame with its retry loop)        *)
(*   BatchSpec / BatchFairSpec   the batch drivers: setup, error paths,    *)
(*                               completion                                *)
(*   SamplerSpec                 the pure computations: timestamp and      *)
(*                               frame selection, blur classifiers, probe  *)
(*                               fields, output paths                      *)
(*   CleanSpec                   the clean-up tools and their dry run      *)
(*   KeepSpec                    extraction followed by the quality check  *)
(*   PairSpec                    delbycaption.process_file                 *)
(*   ScaleSpec                   upscaleimages: size written back          *)
(*   ReportSpec                  delbadvideos1: the report per file        *)
(*   CaptionSpec                 cleancaptions.clean_caption_file          *)
(*   PoolSpec                    captionreport2: chunks and merged counter *)
(* Times are exact rationals <<numerator, denominator>> (seconds).         *)
(***************************************************************************)
EXTENDS Integers, Sequences, FiniteSets, TLC

VARIABLES
    \* ---- av1frameextractor3 / av1frameextractor4 ----
    variant,            \* which of the two scripts runs
    num_frames,         \* args.num_frames
    vidx,               \* index of the video the main loop is at
    pc,                 \* control position
    total_duration,     \* process_video: probed duration (seconds)
    i,                  \* process_video: loop index
    random_timestamps,  \* process_video: random.sample(...) result
    timestamp,          \* extract_frame argument
    output_path,        \* extract_frame argument <<video, kind, index>>
    file,               \* what the file system holds at output_path
    retries,            \* extract_frame local
    outcomes,           \* history: decoder outcomes of the current call
    failed_reported,    \* history: "Failed to extract ..." printed by the call
    exception,          \* exception that left the program, or "none"
    \* ---- batch drivers ----
    bscript,            \* which batch script runs
    bframes,            \* args.num_frames / args.num_snapshots
    bmode,              \* args.mode (0: the script's mode is not told apart)
    task,               \* per file: state of its process_video / loop body
    probe,              \* per file: outcome of the prober
    attempted,          \* per file: timestamp indices handed to the decoder
    decfail,            \* per file: timestamp indices whose decoder call failed
    reported,           \* per file: the script printed or logged an error
    mainpc,             \* "setup", "running", "setup_failed", "completed"
                        \* (normal end) or "crashed"
    tool,               \* what running "ffmpeg -version" gives
    outdir,             \* the output directory has been created
    exit_status,        \* exit status of the process once it has ended
    \* ---- pure computations ----
    fn,                 \* function applied, "none" before the call
    image,              \* classifier input: the image at image_path
    verdict,            \* classifier result
    arg,                \* timestamp selection input <<duration, n, fps>>
    ret,                \* timestamp selection result
    rand,               \* random timestamps chosen by the selection
    info,               \* what was read from the prober's output
    input_files,        \* the video files found in the input directory
    paths,              \* output path of every frame extraction of a run
    \* ---- clean-up tools ----
    cscript,            \* which clean-up tool runs
    dry_run,            \* args.dry_run
    disk,               \* per file: what the file system holds of it
    handled,            \* per file: what the tool did about it
    cleanpc,            \* "running", "done" or "crashed"
    \* ---- extraction followed by the quality / blur check ----
    kscript,            \* which script's process_video runs
    knum,               \* num_frames / num_snapshots
    frame_i,            \* loop index, counted from 1
    kdisk,              \* per frame: what the file system holds at its path
    kwritten,           \* frames the decoder wrote during this run
    kverdict,           \* per frame: "none", "accepted", "rejected", "raise"
    extracted_frames,   \* process_video local
    printed,            \* the count printed at the end, -1 before
    kpc,                \* "loop", "print", "done" or "raised"
    \* ---- delbycaption.process_file ----
    caption,            \* content of the .txt file, a sequence of characters
    keywords,           \* args.keywords
    delete_if_found,    \* args.delete_if_found
    pair_dry_run,       \* args.dry_run
    images,             \* which images exist beside the caption
    removed,            \* files removed by the call
    result,             \* what process_file returned, "none" before the call
    \* ---- upscaleimages.process_images ----
    img_size,           \* <<width, height>> of the image found
    out_size,           \* <<width, height>> of the image written back
    upscaled,           \* "none", "written" or "skipped"
    \* ---- delbadvideos1.clean_videos and its report ----
    walked,             \* per file: what the prober finds of it
    rep_dry_run,        \* dry_run
    position,           \* index of the file the loop is at
    duration_str,       \* clean_videos local, "unbound" until assigned
    report,             \* per file: the lines printed about it
    deleted,            \* files removed
    \* ---- cleancaptions.clean_caption_file ----
    content,            \* content of the caption file, a sequence of characters
    first_content,      \* content after the first run
    phrases,            \* args.phrases
    phrases_to_delete,  \* args.delete_phrases
    runs,               \* runs of clean_caption_file on the file so far
    \* ---- captionreport2.process_caption_files ----
    attributes,         \* per .txt file: the attributes process_file returns
    file_paths,         \* the .txt files found, in the order of the walk
    num_cores,          \* mp.cpu_count()
    chunks,             \* the chunks handed to pool.map
    finished,           \* chunks whose worker has returned
    results,            \* per chunk: the counter its worker returned
    merged,             \* sum(results, Counter())
    poolpc              \* "walked", "pool" or "merged"

retryVars == <<variant, num_frames, vidx, pc, total_duration, i,
               random_timestamps, timestamp, output_path, file, retries,
               outcomes, failed_reported, exception>>
batchVars == <<bscript, bframes, bmode, task, probe, attempted, decfail,
               reported, mainpc, tool, outdir, exit_status>>
pureVars  == <<fn, image, verdict, arg, ret, rand, info, input_files,
               paths>>
cleanVars == <<cscript, dry_run, disk, handled, cleanpc>>
keepVars  == <<kscript, knum, frame_i, kdisk, kwritten, kverdict,
               extracted_frames, printed, kpc>>
pairVars  == <<caption, keywords, delete_if_found, pair_dry_run, images,
               removed, result>>
scaleVars == <<img_size, out_size, upscaled>>
reportVars == <<walked, rep_dry_run, position, duration_str, report,
                deleted>>
captionVars == <<content, first_content, phrases, phrases_to_delete, runs>>
poolVars == <<attributes, file_paths, num_cores, chunks, finished, results,
              merged, poolpc>>
laterVars == <<keepVars, pairVars, scaleVars, reportVars, captionVars,
               poolVars>>
notRetry == <<batchVars, pureVars, cleanVars, laterVars>>
notBatch == <<retryVars, pureVars, cleanVars, laterVars>>
notPure  == <<retryVars, batchVars, cleanVars, laterVars>>
notClean == <<retryVars, batchVars, pureVars, laterVars>>
earlyVars == <<retryVars, batchVars, pureVars, cleanVars>>
notKeep  == <<earlyVars, pairVars, scaleVars, reportVars, captionVars,
              poolVars>>
notPair  == <<earlyVars, keepVars, scaleVars, reportVars, captionVars,
              poolVars>>
notScale == <<earlyVars, keepVars, pairVars, reportVars, captionVars,
              poolVars>>
notReport == <<earlyVars, keepVars, pairVars, scaleVars, captionVars,
               poolVars>>
notCaption == <<earlyVars, keepVars, pairVars, scaleVars, reportVars,
                poolVars>>
notPool  == <<earlyVars, keepVars, pairVars, scaleVars, reportVars,
              captionVars>>
vars == <<retryVars, batchVars, pureVars, cleanVars, laterVars>>

(***************************************************************************)
(* Bounds of the model.                                                    *)
(***************************************************************************)
NumVideos  == 2      \* video files in the input directory
MaxFrames  == 2      \* largest num_frames explored
RandSpread == 1      \* random picks explored at each end of the range
MaxCount   == 4      \* largest frame count given to the timestamp selection
DurSpan    == 6      \* durations 119 .. 120 + DurSpan are explored
MaxCaption == 3      \* longest caption text explored (characters)
ImgSpan    == 9      \* small image sides explored: 1..ImgSpan pixels
MaxContent == 4      \* longest caption file explored (characters)
MaxFiles   == 8      \* most caption files in the directory
FrameSpan  == 6      \* frame counts up to FrameSpan above 100 and 200

\* Probed durations explored (seconds): below, at and above the 120 s of
\* the two excluded minutes, and at and above the 240 s the random pass needs.
DurationSamples == {100, 120, 121, 150, 240, 300}

(***************************************************************************)
(* Exact rationals.                                                        *)
(***************************************************************************)
Rat(n, d) == <<n, d>>
RLt(a, b) == a[1] * b[2] < b[1] * a[2]
RLe(a, b) == a[1] * b[2] <= b[1] * a[2]
REq(a, b) == a[1] * b[2] = b[1] * a[2]
RAdd(a, b) == <<a[1] * b[2] + b[1] * a[2], a[2] * b[2]>>
RSub(a, b) == <<a[1] * b[2] - b[1] * a[2], a[2] * b[2]>>
RTimes(k, a) == <<k * a[1], a[2]>>
ROver(a, n) == <<a[1], a[2] * n>>
Max(a, b) == IF a >= b THEN a ELSE b

(***************************************************************************)
(* Images on disk and the blur classifiers.                                *)
(***************************************************************************)
ImageStates == {"missing", "undecodable", "blurry", "sharp"}

\* av1frameextractor3.is_image_blurry / av1frameextractor4.is_image_blurry:
\* Image.open raises for a missing or undecodable file; the except clause
\* prints and returns True.
is_image_blurry(img) ==
    CASE img = "missing"     -> "blurry"
      [] img = "undecodable" -> "blurry"
      [] img = "blurry"      -> "blurry"
      [] img = "sharp"       -> "sharp"

(***************************************************************************)
(* av1frameextractor3 / av1frameextractor4                                 *)
(***************************************************************************)
Variants == {"av1frameextractor3", "av1frameextractor4"}

max_retries_off == 3 + 1
max_retries == 3

NoPath == <<0, "none", 0>>
NoTime == Rat(0, 1)

RetryIdle ==
    /\ variant = "none" /\ num_frames = 0 /\ vidx = 0 /\ pc = "idle"
    /\ total_duration = 0 /\ i = 0 /\ random_timestamps = <<>>
    /\ timestamp = NoTime /\ output_path = NoPath /\ file = "missing"
    /\ retries = 0 /\ outcomes = <<>> /\ failed_reported = FALSE
    /\ exception = "none"

BatchIdle ==
    /\ bscript = "none" /\ bframes = 0 /\ bmode = 0 /\ task = <<>>
    /\ probe = <<>> /\ attempted = <<>> /\ decfail = <<>>
    /\ reported = <<>> /\ mainpc = "idle"
    /\ tool = "none" /\ outdir = FALSE /\ exit_status = 0

NoArg == <<0, 0, 0>>
NoRet == [status |-> "none", even |-> <<>>]
NoRand == [status |-> "none", picks |-> <<>>]
NoInfo == [status |-> "none", duration |-> 0, nb_frames |-> 0]

PureIdle ==
    /\ fn = "none" /\ image = "none" /\ verdict = "none"
    /\ arg = NoArg /\ ret = NoRet /\ rand = NoRand /\ info = NoInfo
    /\ input_files = <<>> /\ paths = <<>>

CleanIdle ==
    /\ cscript = "none" /\ dry_run = FALSE /\ disk = <<>> /\ handled = <<>>
    /\ cleanpc = "idle"

KeepIdle ==
    /\ kscript = "none" /\ knum = 0 /\ frame_i = 0 /\ kdisk = <<>>
    /\ kwritten = {} /\ kverdict = <<>> /\ extracted_frames = 0
    /\ printed = -1 /\ kpc = "idle"

PairIdle ==
    /\ caption = <<>> /\ keywords = <<>> /\ delete_if_found = FALSE
    /\ pair_dry_run = FALSE /\ images = {} /\ removed = {}
    /\ result = "idle"

NoSize == <<0, 0>>
ScaleIdle == img_size = NoSize /\ out_size = NoSize /\ upscaled = "idle"

ReportIdle ==
    /\ walked = <<>> /\ rep_dry_run = FALSE /\ position = 0
    /\ duration_str = "idle" /\ report = <<>> /\ deleted = {}

CaptionIdle ==
    /\ content = <<>> /\ first_content = <<>> /\ phrases = <<>>
    /\ phrases_to_delete = <<>> /\ runs = -1

PoolIdle ==
    /\ attributes = <<>> /\ file_paths = <<>> /\ num_cores = 0
    /\ chunks = <<>> /\ finished = {} /\ results = <<>>
    /\ merged = <<>> /\ poolpc = "idle"

LaterIdle ==
    /\ KeepIdle /\ PairIdle /\ ScaleIdle /\ ReportIdle /\ CaptionIdle
    /\ PoolIdle

\* __main__ up to the loop over video_files.
Init ==
    /\ variant \in Variants
    /\ num_frames \in 1..MaxFrames
    /\ vidx = 1
    /\ pc = "main"
    /\ total_duration = 0 /\ i = 0 /\ random_timestamps = <<>>
    /\ timestamp = NoTime /\ output_path = NoPath /\ file = "missing"
    /\ retries = 0 /\ outcomes = <<>> /\ failed_reported = FALSE
    /\ exception = "none"
    /\ BatchIdle /\ PureIdle /\ CleanIdle /\ LaterIdle

valid_duration == Max(0, total_duration - 120)

\* interval = valid_duration / (num_frames + 1) if valid_duration > 0 else 0
interval ==
    IF valid_duration > 0 THEN Rat(valid_duration, num_frames + 1)
    ELSE Rat(0, 1)

\* timestamp = 60 + i * interval
even_timestamp(k) ==
    Rat(60 * interval[2] + k * interval[1], interval[2])

\* range(60, int(total_duration - 60)), of which the values within
\* RandSpread of either end are explored.
RandomRange ==
    {t \in 60..(total_duration - 60 - 1) :
        \/ t - 60 < RandSpread
        \/ (total_duration - 60 - 1) - t < RandSpread}

\* Sequences of n distinct elements of S: what random.sample(S, n) returns.
Samples(S, n) ==
    {s \in [1..n -> S] : \A a, b \in 1..n : a # b => s[a] # s[b]}

\* for i, video_file in enumerate(video_files): process_video(...)
MainLoop ==
    /\ pc = "main"
    /\ IF vidx <= NumVideos
       THEN pc' = "pv_probe"
       ELSE pc' = "done"
    /\ UNCHANGED <<variant, num_frames, vidx, total_duration, i,
                   random_timestamps, timestamp, output_path, file, retries,
                   outcomes, failed_reported, exception>>
    /\ UNCHANGED notRetry

\* process_video: the ffprobe call and float(duration_output.strip()).
\* A non-zero exit is caught (the video is skipped); output that is no
\* number raises ValueError, which nothing catches.
Probe ==
    /\ pc = "pv_probe"
    /\ \E r \in {"ok", "CalledProcessError", "ValueError"} :
         \/ /\ r = "ok"
            /\ \E d \in DurationSamples : total_duration' = d
            /\ i' = 1
            /\ pc' = "pv_even"
            /\ UNCHANGED <<vidx, exception>>
         \/ /\ r = "CalledProcessError"
            /\ vidx' = vidx + 1
            /\ pc' = "main"
            /\ UNCHANGED <<total_duration, i, exception>>
         \/ /\ r = "ValueError"
            /\ exception' = "ValueError in process_video"
            /\ pc' = "crashed"
            /\ UNCHANGED <<total_duration, i, vidx>>
    /\ UNCHANGED <<variant, num_frames, random_timestamps, timestamp,
                   output_path, file, retries, outcomes, failed_reported>>
    /\ UNCHANGED notRetry

\* The call extract_frame(video_path, output_path, timestamp): the file
\* system may already hold anything at output_path.
CallExtractFrame(kind, t) ==
    /\ timestamp' = t
    /\ output_path' = <<vidx, kind, i>>
    /\ file' \in ImageStates
    /\ retries' = 0
    /\ outcomes' = <<>>
    /\ failed_reported' = FALSE
    /\ pc' = "ef_entry"

\* for i in range(1, num_frames + 1): ... extract_frame(...)
EvenLoop ==
    /\ pc = "pv_even"
    /\ IF i <= num_frames
       THEN /\ CallExtractFrame("even", even_timestamp(i))
            /\ UNCHANGED <<i, random_timestamps>>
       ELSE /\ pc' = "pv_random"
            /\ UNCHANGED <<i, random_timestamps, timestamp, output_path,
                           file, retries, outcomes, failed_reported>>
    /\ UNCHANGED <<variant, num_frames, vidx, total_duration, exception>>
    /\ UNCHANGED notRetry

\* process_video returns to the main loop; its locals are gone.
ReturnFromProcessVideo ==
    /\ vidx' = vidx + 1
    /\ pc' = "main"
    /\ total_duration' = 0
    /\ i' = 0
    /\ random_timestamps' = <<>>

\* if valid_duration >= 120: random_timestamps = random.sample(...)
\* random.sample raises ValueError when the range holds fewer than
\* num_frames values.
RandomPass ==
    /\ pc = "pv_random"
    /\ IF valid_duration >= 120
       THEN IF total_duration - 120 < num_frames
            THEN /\ exception' = "ValueError in process_video"
                 /\ pc' = "crashed"
                 /\ UNCHANGED <<random_timestamps, i, vidx, total_duration>>
            ELSE /\ random_timestamps' \in Samples(RandomRange, num_frames)
                 /\ i' = 1
                 /\ pc' = "pv_random_loop"
                 /\ UNCHANGED <<vidx, exception, total_duration>>
       ELSE /\ ReturnFromProcessVideo
            /\ UNCHANGED exception
    /\ UNCHANGED <<variant, num_frames, timestamp,
                   output_path, file, retries, outcomes, failed_reported>>
    /\ UNCHANGED notRetry

\* for i, timestamp in enumerate(random_timestamps): extract_frame(...)
RandomLoop ==
    /\ pc = "pv_random_loop"
    /\ IF i <= num_frames
       THEN /\ CallExtractFrame("random", Rat(random_timestamps[i], 1))
            /\ UNCHANGED <<i, vidx, total_duration, random_timestamps>>
       ELSE /\ ReturnFromProcessVideo
            /\ UNCHANGED <<timestamp, output_path, file, retries,
                           outcomes, failed_reported>>
    /\ UNCHANGED <<variant, num_frames, exception>>
    /\ UNCHANGED notRetry

\* extract_frame without the test of the existing file.
ExistingFrameCheck_always_extracts ==
    /\ pc = "ef_entry"
    /\ pc' = "ef_while"
    /\ UNCHANGED <<variant, num_frames, vidx, total_duration, i,
                   random_timestamps, timestamp, output_path, file, retries,
                   outcomes, failed_reported, exception>>
    /\ UNCHANGED notRetry

\* extract_frame, up to the while loop: an existing frame that is not
\* blurry is kept and the call returns.
ExistingFrameCheck ==
    /\ pc = "ef_entry"
    /\ IF file # "missing" /\ is_image_blurry(file) # "blurry"
       THEN pc' = "ef_return"
       ELSE pc' = "ef_while"
    /\ UNCHANGED <<variant, num_frames, vidx, total_duration, i,
                   random_timestamps, timestamp, output_path, file, retries,
                   outcomes, failed_reported, exception>>
    /\ UNCHANGED notRetry

\* while retries < max_retries: subprocess.check_call(cmd) is started.
RetryLoop ==
    /\ pc = "ef_while"
    /\ IF retries < max_retries
       THEN pc' = "ef_decoding"
       ELSE pc' = "ef_after"
    /\ UNCHANGED <<variant, num_frames, vidx, total_duration, i,
                   random_timestamps, timestamp, output_path, file, retries,
                   outcomes, failed_reported, exception>>
    /\ UNCHANGED notRetry

\* subprocess.check_call returns: CalledProcessError is caught and counted;
\* otherwise a frame is written and classified, a blurry one is counted, a
\* sharp one breaks out of the loop.
DecoderReturns ==
    /\ pc = "ef_decoding"
    /\ \E o \in {"nonzero", "blurry", "sharp"} :
         /\ outcomes' = Append(outcomes, o)
         /\ IF o = "nonzero"
            THEN /\ retries' = retries + 1
                 /\ pc' = "ef_while"
                 /\ UNCHANGED file
            ELSE /\ file' = o
                 /\ IF is_image_blurry(o) # "blurry"
                    THEN /\ pc' = "ef_after"
                         /\ UNCHANGED retries
                    ELSE /\ retries' = retries + 1
                         /\ pc' = "ef_while"
    /\ UNCHANGED <<variant, num_frames, vidx, total_duration, i,
                   random_timestamps, timestamp, output_path,
                   failed_reported, exception>>
    /\ UNCHANGED notRetry

ReportFailure_after_any_retry ==
    /\ pc = "ef_after"
    /\ failed_reported' = (retries >= 1)
    /\ pc' = "ef_return"
    /\ UNCHANGED <<variant, num_frames, vidx, total_duration, i,
                   random_timestamps, timestamp, output_path, file, retries,
                   outcomes, exception>>
    /\ UNCHANGED notRetry

\* if retries == max_retries: print("Failed to extract a non-blurry frame")
ReportFailure ==
    /\ pc = "ef_after"
    /\ failed_reported' = (retries = max_retries)
    /\ pc' = "ef_return"
    /\ UNCHANGED <<variant, num_frames, vidx, total_duration, i,
                   random_timestamps, timestamp, output_path, file, retries,
                   outcomes, exception>>
    /\ UNCHANGED notRetry

\* extract_frame returns to the loop of process_video that called it; its
\* arguments and locals are gone.
ExtractFrameReturns ==
    /\ pc = "ef_return"
    /\ i' = i + 1
    /\ pc' = IF output_path[2] = "even" THEN "pv_even" ELSE "pv_random_loop"
    /\ timestamp' = NoTime
    /\ output_path' = NoPath
    /\ file' = "missing"
    /\ retries' = 0
    /\ outcomes' = <<>>
    /\ failed_reported' = FALSE
    /\ UNCHANGED <<variant, num_frames, vidx, total_duration,
                   random_timestamps, exception>>
    /\ UNCHANGED notRetry

\* The decoder process never exits: check_call has no timeout and blocks.
DecoderHangs ==
    /\ pc = "ef_decoding"
    /\ pc' = "ef_hung"
    /\ UNCHANGED <<variant, num_frames, vidx, total_duration, i,
                   random_timestamps, timestamp, output_path, file, retries,
                   outcomes, failed_reported, exception>>
    /\ UNCHANGED notRetry

Next ==
    \/ MainLoop
    \/ Probe
    \/ EvenLoop
    \/ RandomPass
    \/ RandomLoop
    \/ ExistingFrameCheck
    \/ RetryLoop
    \/ DecoderReturns
    \/ ReportFailure
    \/ ExtractFrameReturns

Spec == Init /\ [][Next]_vars

\* Every step of the sequential program is taken once it can be.
FairSpec == Init /\ [][Next]_vars /\ WF_vars(Next)

HangNext == Next \/ DecoderHangs

\* As FairSpec, with decoder invocations that may never return.
HangSpec == Init /\ [][HangNext]_vars /\ WF_vars(Next)

(***************************************************************************)
(* Batch drivers: what each script does with a prober or decoder failure.  *)
(***************************************************************************)
BatchScripts ==
    {"extvid4", "vidext2", "createvidshots", "videoframe_extractor",
     "av1frameextractor", "av1frameextractor1", "av1frameextractor5",
     "extvid6"}

Files == 1..NumVideos

\* What the prober gives for a file: usable metadata ("ok"), usable metadata
\* of a video too short to sample ("short"), a non-zero exit with nothing on
\* stdout ("nonzero"), or a zero exit with empty or unparsable output.
ProbeOutcomes == {"ok", "short", "nonzero", "unparsable"}
UsableProbe == {"ok", "short"}

\* extvid4.get_video_info: subprocess.run without check, json.loads of the
\* output and the field look-ups, none of it inside try.
get_video_info_extvid4(o) ==
    IF o \in UsableProbe THEN "info" ELSE "raise"

\* vidext2.extract_frames: ffmpeg.probe(video_path) and the field look-ups,
\* not inside try.
probe_vidext2(o) ==
    IF o \in UsableProbe THEN "info" ELSE "raise"

\* createvidshots.get_video_duration: as extvid4.get_video_info.
get_video_duration_createvidshots(o) ==
    IF o \in UsableProbe THEN "info" ELSE "raise"

\* videoframe_extractor.get_video_duration: ffmpeg.probe, not inside try.
get_video_duration_videoframe_extractor(o) ==
    IF o \in UsableProbe THEN "info" ELSE "raise"

\* av1frameextractor.get_video_info: ffmpeg.probe raises ffmpeg.Error on a
\* non-zero exit, which is caught (None is returned); output that does not
\* parse raises from json.loads, which except ffmpeg.Error does not catch.
get_video_info_av1frameextractor(o) ==
    CASE o \in UsableProbe -> "info"
      [] o = "nonzero"     -> "None"
      [] o = "unparsable"  -> "raise"

\* av1frameextractor1.get_video_duration: subprocess.run without check and
\* float(result.stdout), which raises ValueError for anything but a number.
get_video_duration_av1frameextractor1(o) ==
    IF o \in UsableProbe THEN "info" ELSE "raise"

\* av1frameextractor5.get_video_duration: as in av1frameextractor1, but
\* process_video calls it inside try; except Exception prints the error and
\* the body returns.
get_video_duration_av1frameextractor5(o) ==
    IF o \in UsableProbe THEN "info" ELSE "None"

\* extvid6.get_video_info: every exception is caught and None is returned.
get_video_info_extvid6(o) ==
    IF o \in UsableProbe THEN "info" ELSE "None"

ProbeResult(script, o) ==
    CASE script = "extvid4" -> get_video_info_extvid4(o)
      [] script = "vidext2" -> probe_vidext2(o)
      [] script = "createvidshots" -> get_video_duration_createvidshots(o)
      [] script = "videoframe_extractor" ->
            get_video_duration_videoframe_extractor(o)
      [] script = "av1frameextractor" -> get_video_info_av1frameextractor(o)
      [] script = "av1frameextractor1" ->
            get_video_duration_av1frameextractor1(o)
      [] script = "av1frameextractor5" ->
            get_video_duration_av1frameextractor5(o)
      [] script = "extvid6" -> get_video_info_extvid6(o)

\* The scripts below, with extvid6 among those that let a decoder failure
\* out.
DecoderFailureRaises_in_extvid6(script) ==
    script \in {"extvid4", "vidext2", "createvidshots",
                "videoframe_extractor", "extvid6"}

\* Scripts whose decoder call lets the failure out of the per-timestamp code:
\* extvid4.extract_frame and createvidshots.extract_frame (subprocess.run
\* with check=True), videoframe_extractor.extract_frame and the ffmpeg run
\* of vidext2.extract_frames (ffmpeg.Error), none of them inside try.
\* av1frameextractor.extract_frame and extvid6.extract_single_frame catch
\* it and return False; av1frameextractor1.process_video catches
\* CalledProcessError around the call.
DecoderFailureRaises(script) ==
    script \in {"extvid4", "vidext2", "createvidshots",
                "videoframe_extractor"}

\* What one decoder invocation gives: exit status 0 or a non-zero exit
\* status; extvid6.extract_single_frame passes timeout=30, so that there the
\* call also ends with TimeoutExpired, or with any other exception
\* (OSError when the program cannot be started).
DecoderOutcomes(script) ==
    IF script = "extvid6" THEN {"ok", "nonzero", "timeout", "exception"}
    ELSE {"ok", "nonzero"}

\* Scripts that walk the files in a plain loop (the others submit one task
\* per file to an executor before waiting for any).
SequentialFiles(script) ==
    script \in {"extvid4", "vidext2", "createvidshots"}

\* createvidshots.process_video submits one task per timestamp.
ParallelTimestamps(script) == script = "createvidshots"

\* Scripts that skip a video too short to sample (duration <= start_time,
\* total_frames <= 100, duration <= 120); createvidshots and
\* videoframe_extractor have no such test.
SkipsShortVideo(script) ==
    script \notin {"createvidshots", "videoframe_extractor"}

\* Scripts explored with a count that is zero or negative (argparse
\* type=int accepts any integer), and with each of their modes.
CountScripts == {"extvid4", "extvid6", "av1frameextractor"}
Counts(script) ==
    IF script \in CountScripts THEN (-MaxFrames)..MaxFrames
    ELSE 1..MaxFrames
Modes(script) ==
    IF script \in {"extvid4", "extvid6"} THEN 1..3 ELSE {0}

\* What computing the timestamps of a file gives. extvid4 / extvid6:
\* interval = (duration - start_time) / num_frames in modes 1 and 3, then
\* lists built over range(num_frames). av1frameextractor:
\* interval = (end_time - start_time) / (num_snapshots + 1), then lists
\* built over range(1, num_snapshots + 1) and range(num_snapshots).
select_timestamps(script, mode, n) ==
    CASE script \in {"extvid4", "extvid6"} /\ mode \in {1, 3} /\ n = 0 ->
            "ZeroDivisionError"
      [] script = "av1frameextractor" /\ n + 1 = 0 -> "ZeroDivisionError"
      [] n <= 0 -> "empty"
      [] OTHER -> "timestamps"

\* extvid6.process_video wraps extract_frames in try / except Exception and
\* logs the error; the other scripts let the exception out of the body.
CatchesInBody(script) == script = "extvid6"

\* Scripts whose body prints or logs an error when the prober gave None or
\* a decoder call failed.
ReportsFailure(script) ==
    script \in {"av1frameextractor", "av1frameextractor1",
                "av1frameextractor5", "extvid6"}

\* Scripts that run "ffmpeg -version" before anything else, and what that
\* gives: exit status 0, a non-zero exit status (CalledProcessError), or no
\* such program (FileNotFoundError).
CheckedScripts ==
    {"av1frameextractor", "av1frameextractor1", "av1frameextractor5"}
ToolStates == {"ok", "nonzero", "not found"}

BatchInit ==
    /\ bscript \in BatchScripts
    /\ bframes \in Counts(bscript)
    /\ bmode \in Modes(bscript)
    /\ task = [f \in Files |-> "queued"]
    /\ probe = [f \in Files |-> "none"]
    /\ attempted = [f \in Files |-> {}]
    /\ decfail = [f \in Files |-> {}]
    /\ reported = [f \in Files |-> FALSE]
    /\ mainpc = "setup"
    /\ tool \in (IF bscript \in CheckedScripts THEN ToolStates ELSE {"ok"})
    /\ outdir = FALSE
    /\ exit_status = 0
    /\ RetryIdle /\ PureIdle /\ CleanIdle /\ LaterIdle

AllFrames == 1..bframes

Setup_mkdir_first ==
    /\ mainpc = "setup"
    /\ outdir' = TRUE
    /\ IF bscript \in CheckedScripts /\ tool # "ok"
       THEN /\ mainpc' = "setup_failed"
            /\ exit_status' = 1
       ELSE /\ mainpc' = "running"
            /\ UNCHANGED exit_status
    /\ UNCHANGED <<bscript, bframes, bmode, task, probe, attempted, decfail,
                   reported, tool>>
    /\ UNCHANGED notBatch

\* The start of the run: check_dependencies / check_ffmpeg where the script
\* has one, then the creation of the output directory. A failed check ends
\* the process with status 1: sys.exit(1) in the except clause, or, for the
\* FileNotFoundError that av1frameextractor.check_dependencies does not
\* catch, the uncaught exception.
Setup ==
    /\ mainpc = "setup"
    /\ IF bscript \in CheckedScripts /\ tool # "ok"
       THEN /\ mainpc' = "setup_failed"
            /\ exit_status' = 1
            /\ UNCHANGED outdir
       ELSE /\ mainpc' = "running"
            /\ outdir' = TRUE
            /\ UNCHANGED exit_status
    /\ UNCHANGED <<bscript, bframes, bmode, task, probe, attempted, decfail,
                   reported, tool>>
    /\ UNCHANGED notBatch

\* The body for one file starts, probes the file and computes its
\* timestamps. In a plain loop a file starts once the files before it have
\* returned; an exception leaves the body (unless the body catches it), a
\* None result or a video found too short returns from it, and so does an
\* empty list of timestamps.
ProbeFile(f) ==
    /\ mainpc = "running"
    /\ task[f] = "queued"
    /\ SequentialFiles(bscript) => \A g \in 1..(f - 1) : task[g] = "returned"
    /\ \E o \in ProbeOutcomes :
         LET sel == select_timestamps(bscript, bmode, bframes)
             r == ProbeResult(bscript, o)
             skipped == r = "None" \/ (o = "short" /\ SkipsShortVideo(bscript))
         IN  /\ probe' = [probe EXCEPT ![f] = o]
             /\ task' = [task EXCEPT ![f] =
                    CASE r = "raise" -> "raised"
                      [] skipped -> "returned"
                      [] sel = "ZeroDivisionError" ->
                            IF CatchesInBody(bscript) THEN "returned"
                            ELSE "raised"
                      [] sel = "empty" -> "returned"
                      [] OTHER -> "frames"]
             /\ reported' = [reported EXCEPT ![f] =
                    \/ r = "None" /\ ReportsFailure(bscript)
                    \/ /\ r = "info" /\ ~skipped
                       /\ sel = "ZeroDivisionError"
                       /\ CatchesInBody(bscript)]
    /\ UNCHANGED <<bscript, bframes, bmode, attempted, decfail, mainpc,
                   tool, outdir, exit_status>>
    /\ UNCHANGED notBatch

\* The timestamp indices the body may hand to the decoder next.
NextFrames(f) ==
    IF ParallelTimestamps(bscript) THEN AllFrames \ attempted[f]
    ELSE {k \in AllFrames \ attempted[f] :
            \A j \in AllFrames \ attempted[f] : k <= j}

\* One decoder invocation for one timestamp of file f. A failure that is
\* not caught ends the body at once, except in createvidshots, where it is
\* kept in the future, the other timestamps still run, and future.result()
\* raises it after the pool has finished.
ExtractFrame(f) ==
    /\ mainpc = "running"
    /\ task[f] = "frames"
    /\ \E k \in NextFrames(f), o \in DecoderOutcomes(bscript) :
         LET att == attempted[f] \cup {k}
             bad == IF o # "ok" THEN decfail[f] \cup {k} ELSE decfail[f]
             raises == DecoderFailureRaises(bscript) /\ bad # {}
         IN  /\ attempted' = [attempted EXCEPT ![f] = att]
             /\ decfail' = [decfail EXCEPT ![f] = bad]
             /\ task' = [task EXCEPT ![f] =
                    CASE raises /\ ~ParallelTimestamps(bscript) -> "raised"
                      [] att = AllFrames /\ raises -> "raised"
                      [] att = AllFrames -> "returned"
                      [] OTHER -> "frames"]
             /\ reported' = [reported EXCEPT ![f] =
                    reported[f] \/ (bad # {} /\ ReportsFailure(bscript))]
    /\ UNCHANGED <<bscript, bframes, bmode, probe, mainpc, tool, outdir,
                   exit_status>>
    /\ UNCHANGED notBatch

MainEnds_without_waiting ==
    /\ mainpc = "running"
    /\ IF SequentialFiles(bscript)
       THEN \/ \E f \in Files : task[f] = "raised"
            \/ \A f \in Files : task[f] = "returned"
       ELSE \A f \in Files : task[f] # "queued"
    /\ mainpc' = IF \E f \in Files : task[f] = "raised"
                 THEN "crashed" ELSE "completed"
    /\ exit_status' = IF \E f \in Files : task[f] = "raised" THEN 1 ELSE 0
    /\ UNCHANGED <<bscript, bframes, bmode, task, probe, attempted, decfail,
                   reported, tool, outdir>>
    /\ UNCHANGED notBatch

\* The run ends and, where the script has one, the completion message is
\* printed. A plain loop ends with the first exception or after the last
\* file; with an executor, future.result() re-raises a task's exception and
\* leaving the with block waits for every task.
MainEnds ==
    /\ mainpc = "running"
    /\ IF SequentialFiles(bscript)
       THEN \/ \E f \in Files : task[f] = "raised"
            \/ \A f \in Files : task[f] = "returned"
       ELSE \A f \in Files : task[f] \in {"returned", "raised"}
    /\ mainpc' = IF \E f \in Files : task[f] = "raised"
                 THEN "crashed" ELSE "completed"
    /\ exit_status' = IF \E f \in Files : task[f] = "raised" THEN 1 ELSE 0
    /\ UNCHANGED <<bscript, bframes, bmode, task, probe, attempted, decfail,
                   reported, tool, outdir>>
    /\ UNCHANGED notBatch

BatchNext ==
    \/ Setup
    \/ \E f \in Files : ProbeFile(f)
    \/ \E f \in Files : ExtractFrame(f)
    \/ MainEnds

BatchSpec == BatchInit /\ [][BatchNext]_vars

\* As BatchSpec, with a scheduler that keeps running whatever can run: the
\* pool runs every submitted task and each external call returns.
BatchFairSpec == BatchSpec /\ WF_vars(BatchNext)

(***************************************************************************)
(* Pure computations: blur classifiers and timestamp selection.            *)
(***************************************************************************)

\* av1frameextractor1.is_blurry: cv2.imread returns None for a file that is
\* missing or cannot be decoded, and cv2.cvtColor(None, ...) raises
\* cv2.error; nothing in is_blurry catches it.
is_blurry_av1frameextractor1(img) ==
    CASE img = "missing"     -> "raise"
      [] img = "undecodable" -> "raise"
      [] img = "blurry"      -> "blurry"
      [] img = "sharp"       -> "sharp"

\* av1frameextractor2.is_blurry: cv2.imread(..., IMREAD_GRAYSCALE) returns
\* None and cv2.Laplacian(None, ...) raises cv2.error.
is_blurry_av1frameextractor2(img) ==
    CASE img = "missing"     -> "raise"
      [] img = "undecodable" -> "raise"
      [] img = "blurry"      -> "blurry"
      [] img = "sharp"       -> "sharp"

\* av1frameextractor5.is_blurry: the body is inside try; except Exception
\* prints and returns True.
is_blurry_av1frameextractor5(img) ==
    CASE img = "missing"     -> "blurry"
      [] img = "undecodable" -> "blurry"
      [] img = "blurry"      -> "blurry"
      [] img = "sharp"       -> "sharp"

Classifiers ==
    {"av1frameextractor1.is_blurry", "av1frameextractor2.is_blurry",
     "av1frameextractor5.is_blurry", "av1frameextractor3.is_image_blurry",
     "av1frameextractor4.is_image_blurry"}

Classify(c, img) ==
    CASE c = "av1frameextractor1.is_blurry" -> is_blurry_av1frameextractor1(img)
      [] c = "av1frameextractor2.is_blurry" -> is_blurry_av1frameextractor2(img)
      [] c = "av1frameextractor5.is_blurry" -> is_blurry_av1frameextractor5(img)
      [] OTHER -> is_image_blurry(img)

\* Durations (seconds) and frame rates given to the timestamp selection.
DurationInputs == (1..10) \cup (119..(120 + DurSpan)) \cup {240, 300}
FpsInputs == {24, 25, 30}

Skipped == [status |-> "skipped", even |-> <<>>]
Raised(e) == [status |-> e, even |-> <<>>]
\* A list of n timestamps, as a sequence.
AsList(ts, n) == SubSeq(ts, 1, n)
Selected(ts) == [status |-> "ok", even |-> AsList(ts, Len(ts))]

\* av1frameextractor.process_video: duration guard, then
\* even_timestamps = [start_time + i * interval for i in range(1, n + 1)].
\* The random snapshots are random.uniform draws, which cannot fail.
select_av1frameextractor(duration, n) ==
    IF duration <= 120 THEN Skipped
    ELSE LET start_time == Rat(60, 1)
             end_time == Rat(duration - 60, 1)
             step == ROver(RSub(end_time, start_time), n + 1)
         IN  Selected([k \in 1..n |-> RAdd(start_time, RTimes(k, step))])

\* av1frameextractor1.process_video: duration guard, then
\* random.sample(range(int(start_time), int(end_time)), num_frames), which
\* raises ValueError when the range holds fewer than num_frames values, and
\* only then the loop with timestamp = start_time + (i + 1) * interval for
\* i in range(num_frames).
select_av1frameextractor1(duration, n) ==
    IF duration <= 120 THEN Skipped
    ELSE LET start_time == Rat(60, 1)
             end_time == Rat(duration - 60, 1)
             step == ROver(RSub(end_time, start_time), n + 1)
         IN  IF n > (duration - 60) - 60
             THEN Raised("ValueError")
             ELSE Selected([k \in 1..n |->
                              RAdd(start_time, RTimes((k - 1) + 1, step))])

\* av1frameextractor5.process_video: the same statements, inside a try whose
\* except Exception prints the error and ends the video.
select_av1frameextractor5(duration, n) ==
    select_av1frameextractor1(duration, n)

\* numpy.linspace(start, stop, num): num samples with both ends included
\* (the single sample of num = 1 is start).
linspace(start, stop, num) ==
    [k \in 1..num |->
        IF num = 1 THEN start
        ELSE RAdd(start, RTimes(k - 1, ROver(RSub(stop, start), num - 1)))]

\* av1frameextractor2.process_videos: valid_duration guard,
\* even_timestamps = np.linspace(60, duration - 60, num_frames), then
\* random.sample(range(60, floor(duration - 60)), num_frames).
select_av1frameextractor2(duration, n) ==
    IF duration - 120 <= 0 THEN Skipped
    ELSE IF n > (duration - 60) - 60 THEN Raised("ValueError")
    ELSE Selected(linspace(Rat(60, 1), Rat(duration - 60, 1), n))

\* extvid4.extract_frames / extvid6.extract_frames, mode 1:
\* start_time = 100 / fps, interval = (duration - start_time) / num_frames,
\* [start_time + i * interval for i in range(num_frames)].
select_extvid4_mode1(duration, n, fps) ==
    LET start_time == Rat(100, fps)
        step == ROver(RSub(Rat(duration, 1), start_time), n)
    IN  IF RLe(Rat(duration, 1), start_time) THEN Skipped
        ELSE Selected([k \in 1..n |-> RAdd(start_time, RTimes(k - 1, step))])

select_extvid6_mode1(duration, n, fps) ==
    select_extvid4_mode1(duration, n, fps)

\* thescript.extract_frames: total_frames (duration * fps here) guard, then
\* even_timestamps = np.linspace(start_time, duration, num_frames) with
\* start_time = start_frame / fps, start_frame = 200.
select_thescript(duration, n, fps) ==
    IF duration * fps <= 200 THEN Skipped
    ELSE Selected(linspace(Rat(200, fps), Rat(duration, 1), n))

\* av1frameextractor3.process_video: valid_duration = max(0, duration - 120),
\* interval = valid_duration / (n + 1) if valid_duration > 0 else 0, and
\* timestamp = 60 + i * interval for i in range(1, n + 1); no duration guard.
select_av1frameextractor3(duration, n) ==
    LET valid == Max(0, duration - 120)
        step == IF valid > 0 THEN Rat(valid, n + 1) ELSE Rat(0, 1)
    IN  Selected([k \in 1..n |-> RAdd(Rat(60, 1), RTimes(k, step))])

MarginSelectors ==
    {"av1frameextractor.process_video", "av1frameextractor1.process_video",
     "av1frameextractor5.process_video", "av1frameextractor2.process_videos",
     "av1frameextractor3.process_video"}
FpsSelectors ==
    {"extvid4.extract_frames", "extvid6.extract_frames",
     "thescript.extract_frames"}

Select(f, duration, n, fps) ==
    CASE f = "av1frameextractor.process_video" ->
            select_av1frameextractor(duration, n)
      [] f = "av1frameextractor1.process_video" ->
            select_av1frameextractor1(duration, n)
      [] f = "av1frameextractor5.process_video" ->
            select_av1frameextractor5(duration, n)
      [] f = "av1frameextractor2.process_videos" ->
            select_av1frameextractor2(duration, n)
      [] f = "av1frameextractor3.process_video" ->
            select_av1frameextractor3(duration, n)
      [] f = "extvid4.extract_frames" -> select_extvid4_mode1(duration, n, fps)
      [] f = "extvid6.extract_frames" -> select_extvid6_mode1(duration, n, fps)
      [] f = "thescript.extract_frames" -> select_thescript(duration, n, fps)

\* The usable interval of a selector: [60, duration - 60] for the scripts
\* that trim a minute from both ends, [start_time, duration] for the others.
UsableLow(f, fps) ==
    CASE f \in MarginSelectors -> Rat(60, 1)
      [] f = "thescript.extract_frames" -> Rat(200, fps)
      [] OTHER -> Rat(100, fps)
UsableHigh(f, duration) ==
    IF f \in MarginSelectors THEN Rat(duration - 60, 1) ELSE Rat(duration, 1)

(***************************************************************************)
(* Random timestamps.                                                      *)
(***************************************************************************)
NotChosen == [status |-> "not chosen", picks |-> <<>>]
RandRaised(e) == [status |-> e, picks |-> <<>>]
Chosen(ts) == [status |-> "ok", picks |-> AsList(ts, Len(ts))]

\* range(lo, hi)
range(lo, hi) == lo..(hi - 1)

\* The values of a range that are explored: the n smallest and the
\* RandSpread largest.
Explored(S, n) ==
    {t \in S : \/ Cardinality({u \in S : u < t}) < n
               \/ Cardinality({u \in S : u > t}) < RandSpread}

\* random.sample(population, k): ValueError when k exceeds the population,
\* otherwise k distinct elements in any order.
random_sample(population, k) ==
    IF k > Cardinality(population) THEN {RandRaised("ValueError")}
    ELSE {Chosen([j \in 1..k |-> Rat(s[j], 1)]) :
             s \in Samples(Explored(population, k), k)}

\* random.uniform(a, b): a + (b - a) * random(), of which both ends and the
\* middle are explored.
random_uniform(a, b) == {a, ROver(RAdd(a, b), 2), b}

\* av1frameextractor.process_video:
\* [random.uniform(start_time, end_time) for _ in range(num_snapshots)]
random_av1frameextractor(duration, n) ==
    IF duration <= 120 THEN {NotChosen}
    ELSE {Chosen(s) :
             s \in [1..n -> random_uniform(Rat(60, 1), Rat(duration - 60, 1))]}

\* av1frameextractor1.process_video / av1frameextractor5.process_video:
\* random.sample(range(int(start_time), int(end_time)), num_frames)
random_av1frameextractor1(duration, n) ==
    IF duration <= 120 THEN {NotChosen}
    ELSE random_sample(range(60, duration - 60), n)

random_av1frameextractor5(duration, n) ==
    random_av1frameextractor1(duration, n)

\* av1frameextractor2.process_videos:
\* sorted(random.sample(range(60, floor(duration - 60)), num_frames))
random_av1frameextractor2(duration, n) ==
    IF duration - 120 <= 0 THEN {NotChosen}
    ELSE {r \in random_sample(range(60, duration - 60), n) :
             \A j \in 1..(Len(r.picks) - 1) :
                 RLe(r.picks[j], r.picks[j + 1])}

\* av1frameextractor3.process_video: the random pass runs only
\* if valid_duration >= 120.
random_av1frameextractor3(duration, n) ==
    IF Max(0, duration - 120) >= 120
    THEN random_sample(range(60, duration - 60), n)
    ELSE {NotChosen}

RandomSelect(f, duration, n) ==
    CASE f = "av1frameextractor.process_video" ->
            random_av1frameextractor(duration, n)
      [] f = "av1frameextractor1.process_video" ->
            random_av1frameextractor1(duration, n)
      [] f = "av1frameextractor5.process_video" ->
            random_av1frameextractor5(duration, n)
      [] f = "av1frameextractor2.process_videos" ->
            random_av1frameextractor2(duration, n)
      [] f = "av1frameextractor3.process_video" ->
            random_av1frameextractor3(duration, n)

(***************************************************************************)
(* Combined selection (mode 3).                                            *)
(***************************************************************************)
\* Frame counts given to the frame-index selections: around the 100 skipped
\* frames and around twice that.
FrameInputs ==
    (99..(100 + FrameSpan)) \cup (200..(200 + FrameSpan)) \cup {300}

Min(a, b) == IF a <= b THEN a ELSE b
\* int(a / b) for b > 0: truncation toward zero.
int_div(a, b) == IF a >= 0 THEN a \div b ELSE -((-a) \div b)
\* list(range(lo, hi, step)) for step > 0
range_step(lo, hi, step) ==
    IF hi <= lo THEN <<>>
    ELSE [j \in 1..((hi - lo + step - 1) \div step) |-> lo + (j - 1) * step]
Elements(seq) == {seq[j] : j \in 1..Len(seq)}
Frames(seq) == [j \in 1..Len(seq) |-> Rat(seq[j], 1)]

\* The even picks followed by one of the possible random results; an
\* exception of the random rule leaves the function.
Combine(even, rs) ==
    {IF r.status = "ok" THEN <<Selected(even), r>>
     ELSE <<Raised(r.status), r>> : r \in rs}
CombinedRaised(e) == {<<Raised(e), RandRaised(e)>>}

\* extvid1.extract_frames, mode 1: interval = (total_frames - 100) //
\* num_frames and range(100, total_frames, interval)[:num_frames]; range
\* raises ValueError for a zero step.
even_extvid1(total_frames, n) ==
    IF total_frames <= 100 THEN Skipped
    ELSE LET step == (total_frames - 100) \div n
             all == range_step(100, total_frames, step)
         IN  IF step = 0 THEN Raised("ValueError")
             ELSE Selected(Frames(SubSeq(all, 1, Min(n, Len(all)))))

\* extvid1.extract_frames, mode 3: range(..., interval * 2) raises
\* ValueError for a zero step.
combined_extvid1(total_frames, n) ==
    IF total_frames <= 100 THEN {<<Skipped, NotChosen>>}
    ELSE LET step == (total_frames - 100) \div n
             all == range_step(100, total_frames, step * 2)
             even_frames == SubSeq(all, 1, Min(n \div 2, Len(all)))
         IN  IF step = 0 THEN CombinedRaised("ValueError")
             ELSE Combine(Frames(even_frames),
                          random_sample(range(100, total_frames)
                                            \ Elements(even_frames),
                                        n - Len(even_frames)))

\* extvid3.extract_frames, mode 3: total_frames -= 100, no guard for short
\* videos.
combined_extvid3(total_frames, n) ==
    LET total == total_frames - 100
        even_frames == n \div 2
        random_frames == n - even_frames
    IN  Combine(Frames([j \in 1..even_frames |->
                          int_div((j - 1) * total, even_frames) + 100]),
                random_sample(range(100, total), random_frames))

\* vidext2.extract_frames, mode 3: half = num_frames // 2 is the divisor of
\* interval and the size of both halves.
combined_vidext2(total_frames, n) ==
    IF total_frames <= 100 THEN {<<Skipped, NotChosen>>}
    ELSE LET half == n \div 2
             step == (total_frames - 100) \div half
         IN  IF half = 0 THEN CombinedRaised("ZeroDivisionError")
             ELSE Combine(Frames([j \in 1..half |-> 100 + (j - 1) * step]),
                          random_sample(range(101, total_frames), half))

\* extvid4.extract_frames, mode 3.
combined_extvid4(duration, n, fps) ==
    LET start_time == Rat(100, fps)
        step == ROver(RSub(Rat(duration, 1), start_time), n)
        even_timestamps ==
            [j \in 1..(n \div 2) |->
                RAdd(start_time, RTimes(2 * (j - 1), step))]
    IN  IF RLe(Rat(duration, 1), start_time) THEN {<<Skipped, NotChosen>>}
        ELSE {<<Selected(even_timestamps), Chosen(r)>> :
                 r \in [1..(n - Len(even_timestamps)) ->
                          random_uniform(start_time, Rat(duration, 1))]}

FrameCombiners ==
    {"extvid1.extract_frames mode 3", "extvid3.extract_frames mode 3",
     "vidext2.extract_frames mode 3"}

Combined(f, total_frames, n) ==
    CASE f = "extvid1.extract_frames mode 3" ->
            combined_extvid1(total_frames, n)
      [] f = "extvid3.extract_frames mode 3" ->
            combined_extvid3(total_frames, n)
      [] f = "vidext2.extract_frames mode 3" ->
            combined_vidext2(total_frames, n)

(***************************************************************************)
(* Fields of the prober's output.                                          *)
(***************************************************************************)
\* A field that the video stream of the prober's output does not have.
Missing == -1

\* Values of the stream's fields explored.
DurationFields == {Missing, 300, 600, 700}
WidthFields == {Missing, 1280, 1920}
HeightFields == {720, 1080}
FrameCountFields == {Missing, 0, 250}

InfoRead(d, nb) == [status |-> "info", duration |-> d, nb_frames |-> nb]
InfoFailed(e) == [status |-> e, duration |-> 0, nb_frames |-> 0]

\* vidinfo.vid_info, from the video stream on: video_stream['width'] raises
\* KeyError for a missing field; a missing duration is replaced by 600;
\* the file is removed if duration < 600 or (width < 1920 and height < 1080).
vid_info(duration, width, height) ==
    LET d == IF duration = Missing THEN 600 ELSE duration
    IN  IF width = Missing
        THEN [info |-> InfoFailed("KeyError"), verdict |-> "raise"]
        ELSE [info |-> InfoRead(d, 0),
              verdict |-> IF d < 600 \/ (width < 1920 /\ height < 1080)
                          THEN "removed" ELSE "kept"]

\* extvid5.get_video_info: int(video_stream.get('nb_frames', 0)) and
\* int(video_stream['width']), not inside try.
fields_extvid5(nb_frames, width) ==
    IF width = Missing THEN InfoFailed("KeyError")
    ELSE InfoRead(0, IF nb_frames = Missing THEN 0 ELSE nb_frames)

\* extvid6.get_video_info / extvid7.get_video_info: the same inside try;
\* except Exception logs the error and None is returned.
fields_extvid6(nb_frames, width) ==
    IF width = Missing THEN InfoFailed("None")
    ELSE InfoRead(0, IF nb_frames = Missing THEN 0 ELSE nb_frames)

fields_extvid7(nb_frames, width) == fields_extvid6(nb_frames, width)

FieldReaders ==
    {"extvid5.get_video_info", "extvid6.get_video_info",
     "extvid7.get_video_info"}

ReadFields(f, nb_frames, width) ==
    CASE f = "extvid5.get_video_info" -> fields_extvid5(nb_frames, width)
      [] f = "extvid6.get_video_info" -> fields_extvid6(nb_frames, width)
      [] f = "extvid7.get_video_info" -> fields_extvid7(nb_frames, width)

(***************************************************************************)
(* Output paths.                                                           *)
(***************************************************************************)
\* File names <<stem, suffix>> of the input directory; every script lists
\* '.mp4' and '.mkv' among its video extensions.
Stems == {"a", "b"}
Suffixes == {".mp4", ".mkv"}
Listings ==
    {l \in [1..NumVideos -> Stems \X Suffixes] :
        \A x, y \in 1..NumVideos : x # y => l[x] # l[y]}

\* The extractions of a run in which every listed video is sampled with
\* 2 * n timestamps: extraction j belongs to file FileOf(j, n) and is the
\* loop index IndexOf(j, n) (from 0) of that file.
FileOf(j, n) == ((j - 1) \div (2 * n)) + 1
IndexOf(j, n) == (j - 1) % (2 * n)

\* An output path <<directory, stem, kind, number>>.
\* av1frameextractor.process_video:
\* output_dir / f"{video_name}_{snapshot_type}_{i % num_snapshots + 1}.png"
\* with video_name = Path(video_path).stem.
targets_av1frameextractor(listing, n) ==
    [j \in 1..(Len(listing) * 2 * n) |->
        <<"output_dir", listing[FileOf(j, n)][1],
          IF IndexOf(j, n) < n THEN "even" ELSE "random",
          (IndexOf(j, n) % n) + 1>>]

\* av1frameextractor1.process_video / av1frameextractor5.process_video:
\* output_dir / f"{video_name}_frame_{i+1:03d}.png", video_name the stem.
targets_av1frameextractor1(listing, n) ==
    [j \in 1..(Len(listing) * 2 * n) |->
        <<"output_dir", listing[FileOf(j, n)][1], "frame",
          IndexOf(j, n) + 1>>]

targets_av1frameextractor5(listing, n) ==
    targets_av1frameextractor1(listing, n)

\* av1frameextractor2: output_subdir = output_dir / stem, and
\* extract_frames is called for the even and then for the random
\* timestamps, each call naming its files f"{stem}_frame_{i + 1}.png" with
\* the i of its own enumerate.
targets_av1frameextractor2(listing, n) ==
    [j \in 1..(Len(listing) * 2 * n) |->
        <<listing[FileOf(j, n)][1], listing[FileOf(j, n)][1], "frame",
          (IndexOf(j, n) % n) + 1>>]

Namers ==
    {"av1frameextractor.main", "av1frameextractor1.main",
     "av1frameextractor5.main", "av1frameextractor2.process_videos"}

Targets(f, listing, n) ==
    CASE f = "av1frameextractor.main" -> targets_av1frameextractor(listing, n)
      [] f = "av1frameextractor1.main" ->
            targets_av1frameextractor1(listing, n)
      [] f = "av1frameextractor5.main" ->
            targets_av1frameextractor5(listing, n)
      [] f = "av1frameextractor2.process_videos" ->
            targets_av1frameextractor2(listing, n)

(***************************************************************************)
(* extractframes.extract_n_frames                                          *)
(***************************************************************************)
\* Numbers of frames the decoder yields for a video.
DecodedCounts == 1..(2 * MaxCount + 2)

\* for frame_num, frame in enumerate(container.decode(stream)): the frame is
\* saved if frame_num % step == 0, and the loop breaks after the frame
\* with frame_num // step >= n_frames.
RECURSIVE decode_loop(_, _, _, _, _)
decode_loop(frame_num, decoded, step, n_frames, saved) ==
    IF frame_num >= decoded THEN saved
    ELSE LET now == IF frame_num % step = 0
                    THEN Append(saved, frame_num) ELSE saved
         IN  IF frame_num \div step >= n_frames THEN now
             ELSE decode_loop(frame_num + 1, decoded, step, n_frames, now)

\* extract_n_frames for a stream that reports total_frames frames (0 when
\* the container does not say) and decodes to decoded frames:
\* step = max(total_frames // n_frames, 1); the result is the list of the
\* frame numbers saved.
extract_n_frames(total_frames, n_frames, decoded) ==
    LET step == Max(total_frames \div n_frames, 1)
    IN  Selected(Frames(decode_loop(0, decoded, step, n_frames, <<>>)))

SamplerInit ==
    PureIdle /\ RetryIdle /\ BatchIdle /\ CleanIdle /\ LaterIdle

\* A classifier is applied to the image at a path.
ClassifyImage ==
    /\ fn = "none"
    /\ \E c \in Classifiers, img \in ImageStates :
         /\ fn' = c
         /\ image' = img
         /\ verdict' = Classify(c, img)
    /\ UNCHANGED <<arg, ret, rand, info, input_files, paths,
                   notPure>>

\* A script that trims a minute from both ends selects its timestamps.
SelectWithMargin ==
    /\ fn = "none"
    /\ \E f \in MarginSelectors, d \in DurationInputs, n \in 1..MaxCount :
         /\ fn' = f
         /\ arg' = <<d, n, 0>>
         /\ ret' = Select(f, d, n, 0)
         /\ rand' \in RandomSelect(f, d, n)
    /\ UNCHANGED <<image, verdict, info, input_files, paths,
                   notPure>>

\* A script that skips the first frames selects its timestamps.
SelectAfterStartFrame ==
    /\ fn = "none"
    /\ \E f \in FpsSelectors, d \in DurationInputs, n \in 1..MaxCount,
          fps \in FpsInputs :
         /\ fn' = f
         /\ arg' = <<d, n, fps>>
         /\ ret' = Select(f, d, n, fps)
    /\ UNCHANGED <<image, verdict, rand, info, input_files, paths,
                   notPure>>

\* A frame-index script selects its frames in mode 3.
SelectCombinedFrames ==
    /\ fn = "none"
    /\ \E f \in FrameCombiners, t \in FrameInputs, n \in 1..MaxCount :
         /\ fn' = f
         /\ arg' = <<t, n, 0>>
         /\ \E p \in Combined(f, t, n) : ret' = p[1] /\ rand' = p[2]
    /\ UNCHANGED <<image, verdict, info, input_files, paths,
                   notPure>>

\* extvid1 selects its frames in mode 1.
SelectEvenFrames ==
    /\ fn = "none"
    /\ \E t \in FrameInputs, n \in 1..MaxCount :
         /\ fn' = "extvid1.extract_frames mode 1"
         /\ arg' = <<t, n, 0>>
         /\ ret' = even_extvid1(t, n)
    /\ UNCHANGED <<image, verdict, rand, info, input_files, paths,
                   notPure>>

\* extvid4 selects its timestamps in mode 3.
SelectCombinedTimestamps ==
    /\ fn = "none"
    /\ \E d \in DurationInputs, n \in 1..MaxCount, fps \in FpsInputs :
         /\ fn' = "extvid4.extract_frames mode 3"
         /\ arg' = <<d, n, fps>>
         /\ \E p \in combined_extvid4(d, n, fps) :
              ret' = p[1] /\ rand' = p[2]
    /\ UNCHANGED <<image, verdict, info, input_files, paths,
                   notPure>>

\* vidinfo.vid_info reads the stream's fields and decides about the file.
VidInfo ==
    /\ fn = "none"
    /\ \E d \in DurationFields, w \in WidthFields, h \in HeightFields :
         /\ fn' = "vidinfo.vid_info"
         /\ arg' = <<d, w, h>>
         /\ info' = vid_info(d, w, h).info
         /\ verdict' = vid_info(d, w, h).verdict
    /\ UNCHANGED <<image, ret, rand, input_files, paths,
                   notPure>>

\* get_video_info of extvid5 / extvid6 / extvid7 reads the stream's fields.
GetVideoInfo ==
    /\ fn = "none"
    /\ \E f \in FieldReaders, nb \in FrameCountFields, w \in WidthFields :
         /\ fn' = f
         /\ arg' = <<nb, w, 0>>
         /\ info' = ReadFields(f, nb, w)
    /\ UNCHANGED <<image, verdict, ret, rand, input_files, paths,
                   notPure>>

\* A run names the output file of each of its frame extractions.
NameOutputs ==
    /\ fn = "none"
    /\ \E f \in Namers, l \in Listings, n \in 1..MaxCount :
         /\ fn' = f
         /\ arg' = <<0, n, 0>>
         /\ input_files' = l
         /\ paths' = Targets(f, l, n)
    /\ UNCHANGED <<image, verdict, ret, rand, info, notPure>>

\* extractframes.extract_n_frames is applied to a video.
ExtractNFrames ==
    /\ fn = "none"
    /\ \E decoded \in DecodedCounts, n \in 1..MaxCount :
         \E total_frames \in {0, decoded} :
            /\ fn' = "extractframes.extract_n_frames"
            /\ arg' = <<total_frames, n, decoded>>
            /\ ret' = extract_n_frames(total_frames, n, decoded)
    /\ UNCHANGED <<image, verdict, rand, info, input_files, paths,
                   notPure>>

SamplerNext ==
    \/ ClassifyImage
    \/ ExtractNFrames
    \/ NameOutputs
    \/ VidInfo
    \/ GetVideoInfo
    \/ SelectWithMargin
    \/ SelectAfterStartFrame
    \/ SelectCombinedFrames
    \/ SelectCombinedTimestamps
    \/ SelectEvenFrames

SamplerSpec == SamplerInit /\ [][SamplerNext]_vars

(***************************************************************************)
(* Clean-up tools: delbadvideos, delbadvideos1, delbycaption,              *)
(* cleancaptions.                                                          *)
(***************************************************************************)
Cleaners == {"delbadvideos", "delbadvideos1", "delbycaption", "cleancaptions"}

\* What a tool may find of a file: it meets the criteria ("good"), it does
\* not ("bad"), the prober fails with ffmpeg.Error / the caption has no
\* image ("unreadable"), or the prober's output lacks a field / the text
\* cannot be read ("malformed").
FileCases == {"good", "bad", "unreadable", "malformed"}

\* delbadvideos.clean_videos: a file is deleted unless is_valid_video; that
\* returns False on ffmpeg.Error, and lets the KeyError of a missing field
\* through.
decide_delbadvideos(c) ==
    CASE c = "good"       -> "keep"
      [] c = "bad"        -> "change"
      [] c = "unreadable" -> "change"
      [] c = "malformed"  -> "raise"

\* delbadvideos1.clean_videos: get_video_info returns None on ffmpeg.Error,
\* KeyError, ValueError and TypeError, and None means delete.
decide_delbadvideos1(c) ==
    IF c = "good" THEN "keep" ELSE "change"

\* delbycaption.process_file: None when neither image exists; the pair is
\* deleted if should_delete; open / read of the caption is not inside try.
decide_delbycaption(c) ==
    CASE c = "good"       -> "keep"
      [] c = "bad"        -> "change"
      [] c = "unreadable" -> "keep"
      [] c = "malformed"  -> "raise"

\* cleancaptions.clean_caption_file: every caption that could be read is
\* written back; open / read is not inside try.
decide_cleancaptions(c) ==
    IF c \in {"good", "bad"} THEN "change" ELSE "raise"

Decide(script, c) ==
    CASE script = "delbadvideos"  -> decide_delbadvideos(c)
      [] script = "delbadvideos1" -> decide_delbadvideos1(c)
      [] script = "delbycaption"  -> decide_delbycaption(c)
      [] script = "cleancaptions" -> decide_cleancaptions(c)

\* os.remove / open(file_path, 'w') succeeds or raises OSError.
FsOutcomes == {"done", "OSError"}

\* What the changed file becomes.
Changed(script) == IF script = "cleancaptions" THEN "rewritten" ELSE "removed"

\* delbadvideos1 catches the OSError of os.remove and prints it.
CatchesOSError(script) == script = "delbadvideos1"

\* delbycaption submits one task per caption to a thread pool; the other
\* tools walk the files in a loop.
ParallelClean(script) == script = "delbycaption"

CleanInit ==
    /\ cscript \in Cleaners
    /\ dry_run \in BOOLEAN
    /\ disk = [f \in Files |-> "original"]
    /\ handled = [f \in Files |-> "none"]
    /\ cleanpc = "running"
    /\ RetryIdle /\ BatchIdle /\ PureIdle /\ LaterIdle

CleanFile_ignoring_dry_run(f) ==
    /\ cleanpc = "running"
    /\ handled[f] = "none"
    /\ ~ParallelClean(cscript) =>
          \A g \in 1..(f - 1) : handled[g] \notin {"none", "raised"}
    /\ \E c \in FileCases, r \in FsOutcomes :
         LET d == Decide(cscript, c)
         IN  CASE d = "keep" ->
                    /\ handled' = [handled EXCEPT ![f] = "kept"]
                    /\ UNCHANGED disk
               [] d = "raise" ->
                    /\ handled' = [handled EXCEPT ![f] = "raised"]
                    /\ UNCHANGED disk
               [] d = "change" /\ r = "done" ->
                    /\ handled' = [handled EXCEPT ![f] = "changed"]
                    /\ disk' = [disk EXCEPT ![f] = Changed(cscript)]
               [] d = "change" /\ r = "OSError" ->
                    /\ handled' = [handled EXCEPT ![f] =
                           IF CatchesOSError(cscript) THEN "error printed"
                           ELSE "raised"]
                    /\ UNCHANGED disk
    /\ UNCHANGED <<cscript, dry_run, cleanpc>>
    /\ UNCHANGED notClean

\* The tool handles one file: it decides, and if the file is to be changed
\* it prints "Would ..." in a dry run and removes or rewrites the file
\* otherwise.
CleanFile(f) ==
    /\ cleanpc = "running"
    /\ handled[f] = "none"
    /\ ~ParallelClean(cscript) =>
          \A g \in 1..(f - 1) : handled[g] \notin {"none", "raised"}
    /\ \E c \in FileCases, r \in FsOutcomes :
         LET d == Decide(cscript, c)
         IN  CASE d = "keep" ->
                    /\ handled' = [handled EXCEPT ![f] = "kept"]
                    /\ UNCHANGED disk
               [] d = "raise" ->
                    /\ handled' = [handled EXCEPT ![f] = "raised"]
                    /\ UNCHANGED disk
               [] d = "change" /\ dry_run ->
                    /\ handled' = [handled EXCEPT ![f] = "would change"]
                    /\ UNCHANGED disk
               [] d = "change" /\ ~dry_run /\ r = "done" ->
                    /\ handled' = [handled EXCEPT ![f] = "changed"]
                    /\ disk' = [disk EXCEPT ![f] = Changed(cscript)]
               [] d = "change" /\ ~dry_run /\ r = "OSError" ->
                    /\ handled' = [handled EXCEPT ![f] =
                           IF CatchesOSError(cscript) THEN "error printed"
                           ELSE "raised"]
                    /\ UNCHANGED disk
    /\ UNCHANGED <<cscript, dry_run, cleanpc>>
    /\ UNCHANGED notClean

\* The tool ends: a loop with the first exception or after the last file,
\* the thread pool once every task has finished.
CleanEnds ==
    /\ cleanpc = "running"
    /\ IF ParallelClean(cscript)
       THEN \A f \in Files : handled[f] # "none"
       ELSE \/ \E f \in Files : handled[f] = "raised"
            \/ \A f \in Files : handled[f] # "none"
    /\ cleanpc' = IF \E f \in Files : handled[f] = "raised"
                  THEN "crashed" ELSE "done"
    /\ UNCHANGED <<cscript, dry_run, disk, handled>>
    /\ UNCHANGED notClean

CleanNext ==
    \/ \E f \in Files : CleanFile(f)
    \/ CleanEnds

CleanSpec == CleanInit /\ [][CleanNext]_vars

(***************************************************************************)
(* Extraction followed by the quality / blur check: the frame loop of      *)
(* process_video in av1frameextractor, av1frameextractor1 and              *)
(* av1frameextractor5, for one video and an output directory that holds    *)
(* none of its frames yet.                                                 *)
(***************************************************************************)
KeepScripts ==
    {"av1frameextractor", "av1frameextractor1", "av1frameextractor5"}

\* Scripts that print "Extracted <n> non-blurry frames" after the loop.
PrintsCount == {"av1frameextractor1", "av1frameextractor5"}

\* The loop runs over even_timestamps + random_timestamps, or over
\* range(num_frames * 2).
KeepFrames == 1..(2 * knum)

\* av1frameextractor.is_high_quality: size test of the opened image ("sharp"
\* stands for an image that passes it, "blurry" for one that does not);
\* every exception of Image.open is caught and gives False.
is_high_quality(img) == img = "sharp"

\* What one iteration does to the frame's path, verdict and count and to the
\* loop, for a decoder that exits with status 0 leaving img at the path
\* ("missing": nothing was written).
\* av1frameextractor: os.remove of a rejected frame that is not there
\* raises FileNotFoundError, which nothing catches.
iteration_av1frameextractor(img) ==
    [file |-> IF is_high_quality(img) THEN img ELSE "missing",
     verdict |-> IF is_high_quality(img) THEN "accepted" ELSE "rejected",
     counted |-> FALSE,
     raised |-> img = "missing"]

\* av1frameextractor1: only CalledProcessError is caught around the
\* iteration, so what is_blurry raises leaves process_video.
iteration_av1frameextractor1(img) ==
    LET b == is_blurry_av1frameextractor1(img)
    IN  [file |-> IF b = "blurry" THEN "missing" ELSE img,
         verdict |-> CASE b = "sharp" -> "accepted"
                       [] b = "blurry" -> "rejected"
                       [] OTHER -> "raise",
         counted |-> b = "sharp",
         raised |-> b = "raise"]

\* av1frameextractor5: extract_frame raises FileNotFoundError when the file
\* was not created, and the iteration catches every exception.
iteration_av1frameextractor5(img) ==
    LET b == is_blurry_av1frameextractor5(img)
    IN  IF img = "missing"
        THEN [file |-> "missing", verdict |-> "none", counted |-> FALSE,
              raised |-> FALSE]
        ELSE [file |-> IF b = "blurry" THEN "missing" ELSE img,
              verdict |-> IF b = "sharp" THEN "accepted" ELSE "rejected",
              counted |-> b = "sharp",
              raised |-> FALSE]

Iteration(script, img) ==
    CASE script = "av1frameextractor" -> iteration_av1frameextractor(img)
      [] script = "av1frameextractor1" -> iteration_av1frameextractor1(img)
      [] script = "av1frameextractor5" -> iteration_av1frameextractor5(img)

KeepInit ==
    /\ kscript \in KeepScripts
    /\ knum \in 1..MaxFrames
    /\ frame_i = 1
    /\ kdisk = [k \in KeepFrames |-> "missing"]
    /\ kwritten = {}
    /\ kverdict = [k \in KeepFrames |-> "none"]
    /\ extracted_frames = 0
    /\ printed = -1
    /\ kpc = "loop"
    /\ RetryIdle /\ BatchIdle /\ PureIdle /\ CleanIdle /\ PairIdle
    /\ ScaleIdle /\ ReportIdle /\ CaptionIdle
    /\ PoolIdle

\* After iteration frame_i: on to the next one, or past the loop.
AfterIteration(raised) ==
    /\ frame_i' = frame_i + 1
    /\ kpc' = CASE raised -> "raised"
                [] frame_i = 2 * knum -> "print"
                [] OTHER -> "loop"

\* One iteration whose decoder invocation exits with a non-zero status:
\* extract_frame returns False (av1frameextractor) or raises
\* CalledProcessError, which the iteration catches.
DecoderFails ==
    /\ kpc = "loop"
    /\ AfterIteration(FALSE)
    /\ UNCHANGED <<kscript, knum, kdisk, kwritten, kverdict,
                   extracted_frames, printed>>
    /\ UNCHANGED notKeep

\* One iteration whose decoder invocation exits with status 0: the check
\* runs on what is at the path, and a rejected frame is removed.
ExtractAndCheck ==
    /\ kpc = "loop"
    /\ \E img \in ImageStates :
         LET r == Iteration(kscript, img)
         IN  /\ kdisk' = [kdisk EXCEPT ![frame_i] = r.file]
             /\ kwritten' = IF img = "missing" THEN kwritten
                            ELSE kwritten \cup {frame_i}
             /\ kverdict' = [kverdict EXCEPT ![frame_i] = r.verdict]
             /\ extracted_frames' =
                    IF r.counted THEN extracted_frames + 1
                    ELSE extracted_frames
             /\ AfterIteration(r.raised)
    /\ UNCHANGED <<kscript, knum, printed>>
    /\ UNCHANGED notKeep

\* The line after the loop: av1frameextractor1 and av1frameextractor5 print
\* the count, av1frameextractor returns.
LoopEnds ==
    /\ kpc = "print"
    /\ printed' = IF kscript \in PrintsCount THEN extracted_frames ELSE -1
    /\ kpc' = "done"
    /\ UNCHANGED <<kscript, knum, frame_i, kdisk, kwritten, kverdict,
                   extracted_frames>>
    /\ UNCHANGED notKeep

KeepNext == DecoderFails \/ ExtractAndCheck \/ LoopEnds

KeepSpec == KeepInit /\ [][KeepNext]_vars

(***************************************************************************)
(* delbycaption.process_file: keyword match on the caption entries.        *)
(***************************************************************************)
\* Characters of the captions and keywords explored, and the texts made of
\* at most n of them.
CaptionChars == {"a", "A", " ", ","}
Texts(chars, n) == UNION {[1..m -> chars] : m \in 0..n}
CaptionInputs == Texts(CaptionChars, MaxCaption)
KeywordInputs ==
    {<<"a">>, <<"A">>, <<"b">>, <<"a", "a">>, <<"a", "A">>, <<" ", "a">>,
     <<"a", " ">>, <<>>}
KeywordLists ==
    {<<k>> : k \in KeywordInputs} \cup {<<<<"b">>, k>> : k \in KeywordInputs}

\* str.lower, character by character.
lower_char(c) == IF c = "A" THEN "a" ELSE c

\* A conversion that leaves every character as it is.
lower_keeping_case(s) == s

lower(s) == [k \in 1..Len(s) |-> lower_char(s[k])]

\* str.strip: leading, then trailing white space (blank, line feed) is
\* dropped.
is_space(c) == c \in {" ", "\n"}
RECURSIVE lstrip(_)
lstrip(s) ==
    IF s # <<>> /\ is_space(Head(s)) THEN lstrip(Tail(s)) ELSE s
RECURSIVE rstrip(_)
rstrip(s) ==
    IF s # <<>> /\ is_space(s[Len(s)])
    THEN rstrip(SubSeq(s, 1, Len(s) - 1))
    ELSE s
strip(s) == rstrip(lstrip(s))

\* str.split(','): the list of the pieces between the commas; the text
\* without a comma, the empty text included, gives one piece.
RECURSIVE split_from(_, _, _)
split_from(s, piece, pieces) ==
    IF s = <<>> THEN Append(pieces, piece)
    ELSE IF Head(s) = "," THEN split_from(Tail(s), <<>>, Append(pieces, piece))
    ELSE split_from(Tail(s), Append(piece, Head(s)), pieces)
split(s) == split_from(s, <<>>, <<>>)

\* caption_words = set(word.strip().lower() for word in f.read().split(','))
caption_words(text) ==
    {lower(strip(split(text)[k])) : k \in 1..Len(split(text))}

\* keyword_found = any(keyword.lower() in caption_words for keyword in ...)
keyword_found(text, kws) ==
    \E k \in 1..Len(kws) : lower(kws[k]) \in caption_words(text)

\* should_delete = keyword_found if delete_if_found else not keyword_found
should_delete(text, kws, if_found) ==
    IF if_found THEN keyword_found(text, kws) ELSE ~keyword_found(text, kws)

\* The image process_file settles on: .png when it exists, else .jpg, else
\* none.
img_path(imgs) ==
    CASE "png" \in imgs -> "png"
      [] "jpg" \in imgs -> "jpg"
      [] OTHER -> "none"

PairInit ==
    /\ caption = <<>> /\ keywords = <<>> /\ delete_if_found = FALSE
    /\ pair_dry_run = FALSE /\ images = {} /\ removed = {}
    /\ result = "none"
    /\ RetryIdle /\ BatchIdle /\ PureIdle /\ CleanIdle /\ KeepIdle
    /\ ScaleIdle /\ ReportIdle /\ CaptionIdle
    /\ PoolIdle

\* process_file is applied to one .txt file.
process_file ==
    /\ result = "none"
    /\ \E text \in CaptionInputs, kws \in KeywordLists,
          if_found \in BOOLEAN, dry \in BOOLEAN,
          imgs \in SUBSET {"png", "jpg"} :
         /\ caption' = text
         /\ keywords' = kws
         /\ delete_if_found' = if_found
         /\ pair_dry_run' = dry
         /\ images' = imgs
         /\ IF img_path(imgs) = "none" THEN
                result' = "None" /\ removed' = {}
            ELSE IF ~should_delete(text, kws, if_found) THEN
                result' = "None" /\ removed' = {}
            ELSE IF dry THEN
                result' = "Would delete" /\ removed' = {}
            ELSE
                result' = "Deleted" /\ removed' = {"txt", img_path(imgs)}
    /\ UNCHANGED notPair

PairNext == process_file

PairSpec == PairInit /\ [][PairNext]_vars

(***************************************************************************)
(* upscaleimages: size of the image written back.                          *)
(***************************************************************************)
target_width == 1920
target_height == 1080
netscale == 4

\* Sides (pixels) of the images found in the input directory.
SideInputs == (1..ImgSpan) \cup {480, 640, 1080, 1920}

\* int(a * b / c) for positive a, b, c.
int_of(a, b, c) == (a * b) \div c

\* maintain_aspect_ratio(image, target_width, target_height) for an image of
\* w x h pixels: aspect = w / h; a portrait image gets the target width, any
\* other the target height, and the other side follows from aspect.
maintain_aspect_ratio(w, h) ==
    IF w < h
    THEN <<target_width, int_of(target_width, h, w)>>
    ELSE <<int_of(target_height, w, h), target_height>>

\* The padding step: top = bottom = (1080 - h) // 2 and
\* left = right = (1920 - w) // 2, added when w < 1920 or h < 1080.
\* copyMakeBorder with the same border on both sides.
floor_half(a) == IF a >= 0 THEN a \div 2 ELSE -((1 - a) \div 2)
pad(size) ==
    LET w == size[1]
        h == size[2]
    IN  IF w < target_width \/ h < target_height
        THEN <<w + 2 * floor_half(target_width - w),
               h + 2 * floor_half(target_height - h)>>
        ELSE size

ScaleInit ==
    /\ img_size = NoSize /\ out_size = NoSize /\ upscaled = "none"
    /\ RetryIdle /\ BatchIdle /\ PureIdle /\ CleanIdle /\ KeepIdle
    /\ PairIdle /\ ReportIdle /\ CaptionIdle
    /\ PoolIdle

\* One iteration of the loop of process_images: an image below 1920x1080
\* is enhanced (4 times its sides), resized, padded and written back; any
\* other is skipped.
process_images ==
    /\ upscaled = "none"
    /\ \E width \in SideInputs, height \in SideInputs :
         /\ img_size' = <<width, height>>
         /\ IF width < target_width \/ height < target_height
            THEN /\ out_size' = pad(maintain_aspect_ratio(netscale * width,
                                                          netscale * height))
                 /\ upscaled' = "written"
            ELSE /\ out_size' = NoSize
                 /\ upscaled' = "skipped"
    /\ UNCHANGED notScale

ScaleNext == process_images

ScaleSpec == ScaleInit /\ [][ScaleNext]_vars

(***************************************************************************)
(* delbadvideos1.clean_videos: the report printed for each file.           *)
(***************************************************************************)
\* What get_video_info gives for a file: None, or width, height and
\* duration (seconds).
NoVideoInfo == [readable |-> FALSE, width |-> 0, height |-> 0,
                duration |-> 0]
VideoInfos ==
    {NoVideoInfo} \cup
    [readable : {TRUE}, width : {640, 1920}, height : {480, 1080},
     duration : {100, 600}]

is_hd_quality(width, height) == width >= 720 \/ height >= 720
is_long_enough(d) == d >= 300

\* f"{width}x{height}" and f"{duration:.2f} seconds", kept as the values
\* they show.
resolution_of(v) == <<"x", v.width, v.height>>
duration_str_of(v) == <<"seconds", v.duration>>
NotAvailable == <<"N/A", 0, 0>>
Unbound == <<"unbound", 0>>
NoReport == [resolution |-> <<"none", 0, 0>>, duration |-> <<"none", 0>>,
             reason |-> "none"]

\* The reason printed for a file, "none" for a file that meets the criteria.
reason_of(v) ==
    CASE ~v.readable -> "File is corrupted or unreadable"
      [] ~is_hd_quality(v.width, v.height) ->
            "Not HD quality (below 720x720)"
      [] ~is_long_enough(v.duration) -> "Duration less than 8 minutes"
      [] OTHER -> "none"

\* duration_str after line 41, which only a readable file reaches.
bound_duration_str(v, before) ==
    IF v.readable THEN duration_str_of(v) ELSE before

\* Line 60: duration_str if 'duration_str' in locals() else duration, where
\* duration is "N/A" for an unreadable file.
printed_duration(v, str) ==
    IF str # Unbound THEN str
    ELSE IF v.readable THEN <<"seconds", v.duration>>
    ELSE <<"N/A", 0>>

ReportInit ==
    /\ walked \in [Files -> VideoInfos]
    /\ rep_dry_run \in BOOLEAN
    /\ position = 1
    /\ duration_str = Unbound
    /\ report = [f \in Files |-> NoReport]
    /\ deleted = {}
    /\ RetryIdle /\ BatchIdle /\ PureIdle /\ CleanIdle /\ KeepIdle
    /\ PairIdle /\ ScaleIdle /\ CaptionIdle
    /\ PoolIdle

\* One iteration of the loop of clean_videos over a video file: a file that
\* meets the criteria is passed over; any other is removed (unless dry_run
\* or OSError) and reported.
CleanVideo ==
    /\ position \in Files
    /\ LET v == walked[position]
           str == bound_duration_str(v, duration_str)
       IN  /\ duration_str' = str
           /\ IF reason_of(v) = "none"
              THEN UNCHANGED <<report, deleted>>
              ELSE /\ report' = [report EXCEPT ![position] =
                         [resolution |-> IF v.readable THEN resolution_of(v)
                                         ELSE NotAvailable,
                          duration |-> printed_duration(v, str),
                          reason |-> reason_of(v)]]
                   /\ IF rep_dry_run THEN UNCHANGED deleted
                      ELSE \/ deleted' = deleted \cup {position}
                           \/ UNCHANGED deleted
    /\ position' = position + 1
    /\ UNCHANGED <<walked, rep_dry_run>>
    /\ UNCHANGED notReport

ReportNext == CleanVideo

ReportSpec == ReportInit /\ [][ReportNext]_vars

(***************************************************************************)
(* cleancaptions.clean_caption_file.                                       *)
(***************************************************************************)
\* Characters of the caption files explored: letters, blank, comma, a
\* special character, line feed and the double quote.
ContentChars == {"a", "A", " ", ",", "!", "\n", "\""}
ContentInputs == Texts(ContentChars, MaxContent)
PhraseInputs == {<<>>, <<<<"a">>>>}
DeleteInputs == {<<>>, <<<<"a", "A">>>>}

StartsWith(s, p) == Len(p) <= Len(s) /\ SubSeq(s, 1, Len(p)) = p

\* str.split(sep) for a non-empty separator.
RECURSIVE split_at(_, _, _, _)
split_at(s, sep, piece, pieces) ==
    IF s = <<>> THEN Append(pieces, piece)
    ELSE IF StartsWith(s, sep)
    THEN split_at(SubSeq(s, Len(sep) + 1, Len(s)), sep, <<>>,
                  Append(pieces, piece))
    ELSE split_at(Tail(s), sep, Append(piece, Head(s)), pieces)
split_by(s, sep) == split_at(s, sep, <<>>, <<>>)

\* str.replace(phrase, ''): the occurrences are found from left to right
\* and do not overlap.
RECURSIVE replace(_, _)
replace(s, phrase) ==
    IF s = <<>> THEN <<>>
    ELSE IF phrase # <<>> /\ StartsWith(s, phrase)
    THEN replace(SubSeq(s, Len(phrase) + 1, Len(s)), phrase)
    ELSE <<Head(s)>> \o replace(Tail(s), phrase)

\* sep.join(list)
RECURSIVE join(_, _)
join(list, sep) ==
    IF list = <<>> THEN <<>>
    ELSE IF Len(list) = 1 THEN list[1]
    ELSE list[1] \o sep \o join(Tail(list), sep)

\* The concatenation of a list of lists.
RECURSIVE flatten(_)
flatten(lists) ==
    IF lists = <<>> THEN <<>> ELSE Head(lists) \o flatten(Tail(lists))

\* re.sub(r'\s+', ' ', s)
RECURSIVE collapse(_)
collapse(s) ==
    IF s = <<>> THEN <<>>
    ELSE IF is_space(Head(s))
    THEN <<" ">> \o collapse(lstrip(s))
    ELSE <<Head(s)>> \o collapse(Tail(s))

\* split_fields: the line is cut at the commas outside double quotes, the
\* quotes are dropped and every field is stripped.
RECURSIVE split_fields_from(_, _, _, _)
split_fields_from(line, current_field, in_quotes, fields) ==
    IF line = <<>> THEN Append(fields, strip(current_field))
    ELSE IF Head(line) = "\""
    THEN split_fields_from(Tail(line), current_field, ~in_quotes, fields)
    ELSE IF Head(line) = "," /\ ~in_quotes
    THEN split_fields_from(Tail(line), <<>>, in_quotes,
                           Append(fields, strip(current_field)))
    ELSE split_fields_from(Tail(line), Append(current_field, Head(line)),
                           in_quotes, fields)
split_fields(line) == split_fields_from(line, <<>>, FALSE, <<>>)

\* clean_field: re.sub(r'[^a-zA-Z0-9\s]', '', field), then the white space
\* is collapsed and the result stripped.
is_kept(c) == c \in {"a", "A"} \/ is_space(c)
clean_field(field) == strip(collapse(SelectSeq(field, is_kept)))

\* delete_phrases: every phrase is replaced by '' in turn, then the white
\* space is collapsed and the result stripped.
RECURSIVE delete_each(_, _)
delete_each(field, dels) ==
    IF dels = <<>> THEN field
    ELSE delete_each(replace(field, Head(dels)), Tail(dels))
delete_phrases(field, dels) == strip(collapse(delete_each(field, dels)))

\* break_out_phrases: every item is split at the phrase; the non-empty
\* parts, stripped, alternate with the stripped phrase.
break_item(item, phrase) ==
    LET parts == split_by(item, phrase)
    IN  flatten([k \in 1..Len(parts) |->
            (IF parts[k] # <<>> THEN <<strip(parts[k])>> ELSE <<>>)
            \o (IF k < Len(parts) THEN <<strip(phrase)>> ELSE <<>>)])
RECURSIVE break_each(_, _)
break_each(items, ps) ==
    IF ps = <<>> THEN items
    ELSE break_each(flatten([k \in 1..Len(items) |->
                                break_item(items[k], Head(ps))]),
                    Tail(ps))
NonEmpty(item) == item # <<>>
break_out_phrases(field, ps) ==
    SelectSeq(break_each(<<field>>, ps), NonEmpty)

\* The duplicates, letter case apart, and the empty fields are dropped; the
\* order is kept.
RECURSIVE unique_from(_, _, _)
unique_from(fields, seen, unique_fields) ==
    IF fields = <<>> THEN unique_fields
    ELSE IF lower(Head(fields)) \notin seen /\ Head(fields) # <<>>
    THEN unique_from(Tail(fields), seen \cup {lower(Head(fields))},
                     Append(unique_fields, Head(fields)))
    ELSE unique_from(Tail(fields), seen, unique_fields)

\* One line of the file, cleaned.
cleaned_line(line, ps, dels) ==
    LET fields == split_fields(line)
        cleaned_fields == [k \in 1..Len(fields) |->
                              delete_phrases(clean_field(fields[k]), dels)]
        broken_fields == flatten([k \in 1..Len(cleaned_fields) |->
                              break_out_phrases(cleaned_fields[k], ps)])
    IN  join(unique_from(broken_fields, {}, <<>>), <<",", " ">>)

\* The content clean_caption_file writes for a file holding text.
cleaned_content(text, ps, dels) ==
    LET lines == split_by(strip(text), <<"\n">>)
    IN  join([k \in 1..Len(lines) |-> cleaned_line(lines[k], ps, dels)],
             <<"\n">>)

CaptionInit ==
    /\ content \in ContentInputs
    /\ first_content = <<>>
    /\ phrases \in PhraseInputs
    /\ phrases_to_delete \in DeleteInputs
    /\ runs = 0
    /\ RetryIdle /\ BatchIdle /\ PureIdle /\ CleanIdle /\ KeepIdle
    /\ PairIdle /\ ScaleIdle /\ ReportIdle
    /\ PoolIdle

\* clean_caption_file runs on the file, without dry_run, a first and a
\* second time.
clean_caption_file ==
    /\ runs \in {0, 1}
    /\ content' = cleaned_content(content, phrases, phrases_to_delete)
    /\ first_content' = IF runs = 0 THEN content' ELSE first_content
    /\ runs' = runs + 1
    /\ UNCHANGED <<phrases, phrases_to_delete>>
    /\ UNCHANGED notCaption

CaptionNext == clean_caption_file

CaptionSpec == CaptionInit /\ [][CaptionNext]_vars

(***************************************************************************)
(* captionreport2.process_caption_files: chunks, workers, merged counter.  *)
(***************************************************************************)
\* The attributes of the captions explored, the lists process_file returns
\* for a file, and the core counts.
Attributes == {"x", "y"}
AttributeLists == {<<"x">>, <<"x", "y", "x">>}
CoreCounts == {1, 2}

\* Counter(): every count is zero. A counter is a function over the
\* attributes; a count of zero stands for an absent key.
Counter == [a \in Attributes |-> 0]

\* Counter.update(list): every element adds one to its count.
RECURSIVE update(_, _)
update(counter, list) ==
    IF list = <<>> THEN counter
    ELSE update([counter EXCEPT ![Head(list)] = @ + 1], Tail(list))

\* Counter + Counter: the counts are added and only the positive ones kept.
plus(c1, c2) ==
    [a \in Attributes |-> IF c1[a] + c2[a] > 0 THEN c1[a] + c2[a] ELSE 0]

\* process_files_chunk: the attributes of every file of the chunk, in
\* order, are added to a local counter.
RECURSIVE count_files(_, _, _)
count_files(chunk, attrs, local_counter) ==
    IF chunk = <<>> THEN local_counter
    ELSE count_files(Tail(chunk), attrs,
                     update(local_counter, attrs[Head(chunk)]))
process_files_chunk(chunk, attrs) == count_files(chunk, attrs, Counter)

\* sum(results, Counter())
RECURSIVE sum(_, _)
sum(list, start) ==
    IF list = <<>> THEN start ELSE sum(Tail(list), plus(start, Head(list)))

\* chunk_size = max(1, len(file_paths) // (num_cores * 4))
chunk_size(n, cores) == Max(1, n \div (cores * 4))

\* file_paths[start:start+size], with start counted from 0; the slice
\* without its last element comes first.
slice_short(list, start, size) ==
    SubSeq(list, start + 1, Min(start + size, Len(list)) - 1)
slice(list, start, size) ==
    SubSeq(list, start + 1, Min(start + size, Len(list)))

\* file_paths[i:i+chunk_size] for i in range(0, len(file_paths), chunk_size)
chunks_of(list, size) ==
    LET starts == range_step(0, Len(list), size)
    IN  [k \in 1..Len(starts) |-> slice(list, starts[k], size)]

PoolInit ==
    /\ \E n \in 0..MaxFiles :
         /\ file_paths = [k \in 1..n |-> k]
         /\ attributes \in [1..n -> AttributeLists]
    /\ num_cores \in CoreCounts
    /\ chunks = <<>> /\ finished = {} /\ results = <<>>
    /\ merged = Counter
    /\ poolpc = "walked"
    /\ RetryIdle /\ BatchIdle /\ PureIdle /\ CleanIdle /\ KeepIdle
    /\ PairIdle /\ ScaleIdle /\ ReportIdle /\ CaptionIdle

\* pool.map is called with the chunks.
PoolMap ==
    /\ poolpc = "walked"
    /\ chunks' = chunks_of(file_paths,
                           chunk_size(Len(file_paths), num_cores))
    /\ results' = [k \in 1..Len(chunks') |-> Counter]
    /\ poolpc' = "pool"
    /\ UNCHANGED <<attributes, file_paths, num_cores, finished, merged>>
    /\ UNCHANGED notPool

\* A worker returns the counter of one chunk; the chunks finish in any
\* order.
WorkerReturns(c) ==
    /\ poolpc = "pool"
    /\ c \in (1..Len(chunks)) \ finished
    /\ results' = [results EXCEPT ![c] =
                      process_files_chunk(chunks[c], attributes)]
    /\ finished' = finished \cup {c}
    /\ UNCHANGED <<attributes, file_paths, num_cores, chunks, merged,
                   poolpc>>
    /\ UNCHANGED notPool

\* pool.map returns the results in the order of the chunks once every
\* worker has returned, and they are summed.
PoolReturns ==
    /\ poolpc = "pool"
    /\ finished = 1..Len(chunks)
    /\ merged' = sum(results, Counter)
    /\ poolpc' = "merged"
    /\ UNCHANGED <<attributes, file_paths, num_cores, chunks, finished,
                   results>>
    /\ UNCHANGED notPool

PoolNext ==
    \/ PoolMap
    \/ \E c \in 1..MaxFiles : WorkerReturns(c)
    \/ PoolReturns

PoolSpec == PoolInit /\ [][PoolNext]_vars

(***************************************************************************)
(* Properties of av1frameextractor3 / av1frameextractor4.                  *)
(***************************************************************************)
InExtractFrame ==
    pc \in {"ef_entry", "ef_while", "ef_decoding", "ef_hung", "ef_after",
            "ef_return"}

\* Decoder invocations of the current extract_frame call: those that have
\* returned and the one in progress.
invocations ==
    Len(outcomes) + (IF pc \in {"ef_decoding", "ef_hung"} THEN 1 ELSE 0)

AllOutcomes(o) == \A k \in 1..Len(outcomes) : outcomes[k] = o
NoSharpOutcome == \A k \in 1..Len(outcomes) : outcomes[k] # "sharp"

\* C1: whatever the decoder outcomes (non-zero exit, blurry frame, sharp
\* frame), a call of extract_frame invokes the decoder at most 3 times, never
\* invokes it again after an attempt gave a non-blurry frame, and returns.
C1_RetryLoopBounded ==
    /\ [](InExtractFrame =>
            /\ invocations <= 3
            /\ \A k \in 1..Len(outcomes) :
                 outcomes[k] = "sharp" =>
                    k = Len(outcomes) /\ pc \in {"ef_after", "ef_return"})
    /\ (pc = "ef_entry" ~> pc = "ef_return")

\* C1 witness: a call that used all three invocations, the last one sharp.
C1_Witness ==
    /\ pc = "ef_return"
    /\ outcomes = <<"nonzero", "blurry", "sharp">>

\* C2: a decoder that exits non-zero on every attempt is invoked exactly 3
\* times and the timestamp is reported as failed; the report is printed
\* exactly when none of 3 attempts gave a non-blurry frame; no exception
\* leaves extract_frame and process_video goes on to the next index.
C2_NonZeroExitRetriedThenReported ==
    /\ [](pc = "ef_return" =>
            /\ (outcomes # <<>> /\ AllOutcomes("nonzero")) =>
                  (Len(outcomes) = 3 /\ failed_reported)
            /\ failed_reported <=> (Len(outcomes) = 3 /\ NoSharpOutcome))
    /\ [](InExtractFrame => exception = "none")
    /\ [][pc = "ef_return" =>
            /\ pc' \in {"pv_even", "pv_random_loop"}
            /\ i' = i + 1
            /\ exception' = "none"]_vars

\* C2 witness: three non-zero exits, reported, about to return.
C2_Witness ==
    /\ pc = "ef_return"
    /\ outcomes = <<"nonzero", "nonzero", "nonzero">>
    /\ failed_reported

\* C3: when extract_frame gives up on a timestamp because every attempt gave
\* a blurry frame, no file is left at output_path.
C3_RejectedFrameRemoved ==
    (pc = "ef_return" /\ failed_reported /\ AllOutcomes("blurry"))
        => file = "missing"

\* C6: if a decoder invocation never returns, every other video is still
\* eventually processed.
C6_HangBlocksNoOtherFile ==
    \A v \in 1..NumVideos :
        [](pc = "ef_hung" /\ vidx # v => <>(vidx > v))

\* C10: every timestamp handed to the decoder lies within
\* [60, total_duration - 60], and none is handed over when
\* total_duration <= 120.
C10_TimestampsInUsableInterval ==
    pc = "ef_decoding" =>
        /\ total_duration > 120
        /\ RLe(Rat(60, 1), timestamp)
        /\ RLe(timestamp, Rat(total_duration - 60, 1))

(***************************************************************************)
(* Properties of the pure computations.                                    *)
(***************************************************************************)

\* C7: every blur classifier, given an image that is missing or cannot be
\* decoded, returns the verdict blurry and raises nothing.
C7_UnreadableImageIsBlurry ==
    (fn \in Classifiers /\ image \in {"missing", "undecodable"})
        => verdict = "blurry"

StrictlyIncreasing(ts) ==
    \A k \in 1..(Len(ts) - 1) : RLt(ts[k], ts[k + 1])
EquallySpaced(ts) ==
    \A k \in 1..(Len(ts) - 2) :
        REq(RSub(ts[k + 1], ts[k]), RSub(ts[k + 2], ts[k + 1]))
StrictlyInside(ts, lo, hi) ==
    \A k \in 1..Len(ts) : RLt(lo, ts[k]) /\ RLt(ts[k], hi)

\* C8: in av1frameextractor, av1frameextractor1 and av1frameextractor5, for
\* every duration > 120 and count n >= 1 the even timestamps are
\* 60 + i * (duration - 120) / (n + 1), i = 1..n: exactly n values, strictly
\* increasing, equally spaced, strictly between 60 and duration - 60
\* (duration 300 and n = 4 give 96, 132, 168, 204).
C8_EvenTimestamps ==
    (/\ fn \in {"av1frameextractor.process_video",
                "av1frameextractor1.process_video",
                "av1frameextractor5.process_video"}
     /\ arg[1] > 120)
    => /\ ret.status = "ok"
       /\ Len(ret.even) = arg[2]
       /\ \A k \in 1..Len(ret.even) :
            REq(ret.even[k],
                Rat(60 * (arg[2] + 1) + k * (arg[1] - 120), arg[2] + 1))
       /\ StrictlyIncreasing(ret.even)
       /\ EquallySpaced(ret.even)
       /\ StrictlyInside(ret.even, Rat(60, 1), Rat(arg[1] - 60, 1))
       /\ (arg[1] = 300 /\ arg[2] = 4) =>
            \A k \in 1..4 : REq(ret.even[k], Rat(60 + 36 * k, 1))

\* C9: in av1frameextractor2, extvid4 / extvid6 mode 1 and thescript, every
\* evenly spaced timestamp lies strictly inside the usable interval.
C9_EvenTimestampsOffEndpoints ==
    (/\ fn \in {"av1frameextractor2.process_videos", "extvid4.extract_frames",
                "extvid6.extract_frames", "thescript.extract_frames"}
     /\ ret.status = "ok")
    => StrictlyInside(ret.even, UsableLow(fn, arg[3]), UsableHigh(fn, arg[1]))

Within(ts, lo, hi) ==
    \A k \in 1..Len(ts) : RLe(lo, ts[k]) /\ RLe(ts[k], hi)

\* C11: in av1frameextractor, av1frameextractor1, av1frameextractor2 and
\* av1frameextractor3, for every duration > 120 and count n >= 1 the random
\* timestamps are chosen without failure, are exactly n values, and each
\* lies within [60, duration - 60].
C11_RandomTimestamps ==
    (/\ fn \in {"av1frameextractor.process_video",
                "av1frameextractor1.process_video",
                "av1frameextractor2.process_videos",
                "av1frameextractor3.process_video"}
     /\ arg[1] > 120)
    => /\ rand.status = "ok"
       /\ Len(rand.picks) = arg[2]
       /\ Within(rand.picks, Rat(60, 1), Rat(arg[1] - 60, 1))

CombinedSelectors ==
    FrameCombiners \cup {"extvid4.extract_frames mode 3"}

\* C12: mode 3 of extvid1, extvid3, extvid4 and vidext2 selects, for every
\* num_frames >= 1 and every video long enough for both rules (not skipped
\* as too short, at least 200 + num_frames frames), exactly num_frames
\* positions: floor(num_frames / 2) by the even rule and the remaining
\* num_frames - floor(num_frames / 2) by the random rule.
C12_CombinedSelectsNumFrames ==
    (/\ fn \in CombinedSelectors
     /\ ret.status # "skipped"
     /\ fn \in FrameCombiners => arg[1] >= 200 + arg[2])
    => /\ ret.status = "ok"
       /\ rand.status = "ok"
       /\ Len(ret.even) = arg[2] \div 2
       /\ Len(rand.picks) = arg[2] - arg[2] \div 2

NoDuplicates(ts) ==
    \A a, b \in 1..Len(ts) : a # b => ~REq(ts[a], ts[b])

\* C13: in mode 3 of extvid1, extvid3 and vidext2 no frame index appears
\* twice in the selection: no random pick coincides with an even pick or
\* with another random pick.
C13_CombinedPicksDistinct ==
    (fn \in FrameCombiners /\ ret.status = "ok")
    => NoDuplicates(ret.even \o rand.picks)

\* C15: a field missing from the prober's output is a failed probe, never
\* a default: vidinfo.vid_info decides neither to keep nor to remove a file
\* whose stream has no duration field, and get_video_info of extvid5,
\* extvid6 and extvid7 returns no metadata when nb_frames is absent.
C15_MissingFieldIsFailure ==
    /\ (fn = "vidinfo.vid_info" /\ arg[1] = Missing)
          => verdict \notin {"kept", "removed"}
    /\ (fn \in FieldReaders /\ arg[1] = Missing) => info.status # "info"

\* C18: within one run of av1frameextractor, av1frameextractor1,
\* av1frameextractor5 or av1frameextractor2 no two frame extractions (of
\* different timestamps of a file, or of different input files) target the
\* same output path.
C18_OutputPathsDistinct ==
    fn \in Namers =>
        \A a, b \in 1..Len(paths) : a # b => paths[a] # paths[b]

\* C20: extractframes.extract_n_frames saves exactly n_frames frames for
\* every video that contains at least n_frames frames.
C20_ExactlyNFramesSaved ==
    (fn = "extractframes.extract_n_frames" /\ arg[3] >= arg[2])
    => Len(ret.even) = arg[2]

\* C25: mode 1 of extvid1.extract_frames, for a video with more than 100
\* frames and num_frames >= 1, never fails and selects exactly num_frames
\* frame indices, each at least 100 and below total_frames, strictly
\* increasing with a constant step.
C25_EvenFramesSelected ==
    (fn = "extvid1.extract_frames mode 1" /\ arg[1] > 100)
    => /\ ret.status = "ok"
       /\ Len(ret.even) = arg[2]
       /\ Within(ret.even, Rat(100, 1), Rat(arg[1] - 1, 1))
       /\ StrictlyIncreasing(ret.even)
       /\ EquallySpaced(ret.even)

(***************************************************************************)
(* Properties of the batch drivers.                                        *)
(***************************************************************************)
RunEnded == mainpc \in {"completed", "crashed"}

\* C4: a decoder failure for one timestamp abandons only that timestamp: in
\* extvid4, createvidshots, videoframe_extractor and vidext2, when the run
\* has ended with every probe usable, every timestamp of every file has been
\* handed to the decoder.
C4_DecoderFailureAbandonsOneTimestamp ==
    (/\ bscript \in {"extvid4", "createvidshots", "videoframe_extractor",
                     "vidext2"}
     /\ bframes >= 1
     /\ RunEnded
     /\ \A f \in Files : probe[f] \in {"ok", "none"})
    => \A f \in Files : attempted[f] = AllFrames

\* C5: in av1frameextractor, av1frameextractor1, extvid4 and extvid6, when
\* the prober yields no usable metadata for a file, no decoder invocation is
\* made for it, every other file is still processed and the run ends
\* normally (no decoder failure being involved).
C5_ProbeFailureSkipsOneFile ==
    (/\ bscript \in {"av1frameextractor", "av1frameextractor1", "extvid4",
                     "extvid6"}
     /\ bframes >= 1
     /\ RunEnded
     /\ \A f \in Files : decfail[f] = {})
    => \A f \in Files :
          probe[f] \in {"nonzero", "unparsable"} =>
             /\ attempted[f] = {}
             /\ \A g \in Files \ {f} : probe[g] # "none"
             /\ mainpc = "completed"

\* C14: in extvid4, extvid6 and av1frameextractor a count num_frames <= 0
\* is rejected as an error for that file only: when the run has ended with
\* every probe usable, an error has been reported for every file that was
\* long enough to sample, no decoder invocation was made for it, and every
\* file of the batch has been processed.
C14_InvalidCountRejectedPerFile ==
    (/\ bscript \in CountScripts
     /\ bframes <= 0
     /\ RunEnded
     /\ \A f \in Files : probe[f] \in {"ok", "short", "none"})
    => /\ \A f \in Files :
            probe[f] = "ok" => reported[f] /\ attempted[f] = {}
       /\ \A f \in Files : task[f] # "queued"

\* C16: in av1frameextractor, av1frameextractor1 and av1frameextractor5,
\* when ffmpeg cannot be run the process ends with a non-zero status before
\* the output directory is created and before any video is probed or any
\* frame extracted.
C16_SetupFailureIsFatal ==
    (bscript \in CheckedScripts /\ tool # "ok")
    => /\ ~outdir
       /\ \A f \in Files : probe[f] = "none" /\ attempted[f] = {}
       /\ mainpc # "setup" => (mainpc = "setup_failed" /\ exit_status # 0)

\* C16 witness: ffmpeg is not installed and av1frameextractor has ended.
C16_Witness ==
    /\ bscript = "av1frameextractor"
    /\ tool = "not found"
    /\ mainpc = "setup_failed"

\* C17: in av1frameextractor, av1frameextractor5 and extvid6 completion is
\* reported only after every submitted per-video task has returned: no
\* task is still queued or extracting frames.
C17_CompletionAfterAllTasks ==
    (/\ bscript \in {"av1frameextractor", "av1frameextractor5", "extvid6"}
     /\ mainpc = "completed")
    => \A f \in Files : task[f] = "returned"

\* C17 witness: extvid6 has reported completion after decoder invocations
\* for every file.
C17_Witness ==
    /\ bscript = "extvid6"
    /\ mainpc = "completed"
    /\ \A f \in Files : attempted[f] = AllFrames /\ bframes >= 1

(***************************************************************************)
(* Properties of the clean-up tools.                                       *)
(***************************************************************************)

\* C19: with the dry-run flag set, delbadvideos, delbadvideos1 and
\* delbycaption remove no file and cleancaptions writes no file: every file
\* stays as it was, whatever the tool finds of it.
C19_DryRunChangesNoFile ==
    (cscript \in Cleaners /\ dry_run)
    => \A f \in Files : disk[f] = "original"

\* C19 witness: a dry run has ended after finding every file in need of a
\* change.
C19_Witness ==
    /\ dry_run
    /\ cleanpc = "done"
    /\ \A f \in Files : handled[f] = "would change"

(***************************************************************************)
(* Properties of extvid6 under failing probes and decoder invocations.     *)
(***************************************************************************)
\* C21: in extvid6, whatever each probe and each decoder invocation gives,
\* process_video never raises and main never ends with an exception; a video
\* whose probe succeeded and whose body has returned had
\* extract_single_frame invoked for every selected timestamp; main is not
\* past the pool before every submitted video has returned; and main always
\* reaches "Video frame extraction completed".
C21_Extvid6AlwaysCompletes ==
    /\ [](bscript = "extvid6" =>
            /\ \A f \in Files :
                  /\ task[f] # "raised"
                  /\ (task[f] = "returned" /\ probe[f] = "ok"
                        /\ select_timestamps(bscript, bmode, bframes)
                             = "timestamps")
                       => attempted[f] = AllFrames
            /\ mainpc # "crashed"
            /\ mainpc = "completed" =>
                  \A f \in Files : task[f] = "returned")
    /\ (bscript = "extvid6" => <>(mainpc = "completed"))

\* An extvid6 run that has completed although a decoder invocation failed
\* for one video and the probe failed for another.
C21_Witness ==
    /\ bscript = "extvid6"
    /\ mainpc = "completed"
    /\ \E f \in Files : probe[f] = "ok" /\ decfail[f] = AllFrames
                          /\ AllFrames # {}
    /\ \E f \in Files : probe[f] \in {"nonzero", "unparsable"}

(***************************************************************************)
(* Properties of the extraction followed by the check.                     *)
(***************************************************************************)
\* The frames of this run that are at their path.
Retained == {k \in kwritten : kdisk[k] # "missing"}

\* C22: in av1frameextractor, av1frameextractor1 and av1frameextractor5 a
\* frame that the run extracted and the check rejected is no longer at its
\* path once the iteration is over, every frame of the run that is at its
\* path was accepted, and the count printed by av1frameextractor1 and
\* av1frameextractor5 is the number of frames extracted and retained.
C22_OnlyAcceptedFramesKept ==
    kscript \in KeepScripts =>
        /\ \A k \in kwritten :
              kverdict[k] = "rejected" => kdisk[k] = "missing"
        /\ \A k \in Retained : kverdict[k] = "accepted"
        /\ (kpc = "done" /\ kscript \in PrintsCount)
              => printed = Cardinality(Retained)

(***************************************************************************)
(* Properties of extract_frame and an existing frame.                      *)
(***************************************************************************)
\* The file at output_path is there and is classified non-blurry.
HoldsGoodFrame == file # "missing" /\ is_image_blurry(file) = "sharp"

\* C23: when extract_frame of av1frameextractor3 / av1frameextractor4 is
\* called with a non-blurry frame at output_path, it returns without any
\* decoder invocation and with the file as it was; the while loop, the only
\* place where the decoder is started, is entered from the start of the call
\* only when the file is absent or classified blurry.
C23_ExistingGoodFrameKept ==
    /\ [][(pc = "ef_entry" /\ HoldsGoodFrame)
            => (pc' = "ef_return" /\ file' = file /\ outcomes' = <<>>)]_vars
    /\ [][(pc = "ef_entry" /\ pc' # "ef_return") => ~HoldsGoodFrame]_vars
    /\ [][pc' = "ef_decoding" => pc = "ef_while"]_vars
    /\ [][(pc' = "ef_while" /\ pc # "ef_while")
            => pc \in {"ef_entry", "ef_decoding"}]_vars

\* A call that has returned with the existing frame and no decoder
\* invocation.
C23_Witness ==
    /\ pc = "ef_return"
    /\ outcomes = <<>>
    /\ retries = 0
    /\ HoldsGoodFrame

(***************************************************************************)
(* Properties of delbycaption.process_file.                                *)
(***************************************************************************)
\* The text between positions a and b of the caption is one of its
\* comma-separated entries: no comma inside, a comma or an end on each side.
IsEntry(a, b) ==
    /\ \A k \in a..b : caption[k] # ","
    /\ a = 1 \/ caption[a - 1] = ","
    /\ b = Len(caption) \/ caption[b + 1] = ","

\* The keyword kw equals, letter case apart, the entry between a and b with
\* the white space around it left out.
EqualsEntry(kw, a, b) ==
    \E c \in a..(b + 1), d \in (a - 1)..b :
        /\ \A k \in (a..(c - 1)) \cup ((d + 1)..b) : caption[k] = " "
        /\ c <= d => caption[c] # " " /\ caption[d] # " "
        /\ c > d => c = d + 1 /\ c = a
        /\ Len(kw) = d - c + 1
        /\ \A k \in 1..Len(kw) :
              lower_char(kw[k]) = lower_char(caption[c + k - 1])

SomeKeywordIsAnEntry ==
    \E n \in 1..Len(keywords) :
        \E a \in 1..(Len(caption) + 1), b \in 0..Len(caption) :
            /\ a <= b + 1
            /\ IsEntry(a, b)
            /\ EqualsEntry(keywords[n], a, b)

PairDeleted == removed = {"txt", img_path(images)}

\* C24: a run of delbycaption.process_file without --dry-run on a caption
\* that has an image deletes the caption and its image if and only if
\* (--delete-if-found) some keyword equals, case-insensitively, one
\* comma-separated entry of the caption, or (--delete-if-not-found) none
\* does, so that the other mode would do the opposite; a caption with
\* neither a .png nor a .jpg image has nothing removed in either mode.
C24_DeletedIffKeywordMatches ==
    (result \notin {"none", "idle"}) =>
        /\ (images # {} /\ ~pair_dry_run) =>
              /\ PairDeleted <=> (delete_if_found <=> SomeKeywordIsAnEntry)
              /\ ~PairDeleted <=> removed = {}
              /\ should_delete(caption, keywords, TRUE)
                    # should_delete(caption, keywords, FALSE)
        /\ images = {} => (removed = {} /\ result = "None")

\* The caption " A,a" with the keyword "a" and a .jpg image only, deleted
\* under --delete-if-found.
C24_Witness ==
    /\ result = "Deleted"
    /\ delete_if_found
    /\ images = {"jpg"}
    /\ \E k \in 1..Len(caption) : caption[k] = " "
    /\ \E k \in 1..Len(caption) : caption[k] = "A"
    /\ \E k \in 1..Len(caption) : caption[k] = ","

(***************************************************************************)
(* Properties of upscaleimages.                                            *)
(***************************************************************************)
\* C26: every image that upscaleimages.process_images processes is written
\* back with a width of at least 1920 and a height of at least 1080.
C26_AtLeastTargetSize ==
    upscaled = "written" =>
        out_size[1] >= target_width /\ out_size[2] >= target_height

(***************************************************************************)
(* Properties of the report of delbadvideos1.                              *)
(***************************************************************************)
\* C27: the report delbadvideos1.clean_videos prints for a file whose probe
\* fails shows Resolution N/A and Duration N/A, whatever files came before
\* it in the run.
C27_UnreadableReportedAsNotAvailable ==
    \A f \in DOMAIN report :
        (report[f] # NoReport /\ ~walked[f].readable)
        => /\ report[f].resolution = NotAvailable
           /\ report[f].duration = <<"N/A", 0>>

(***************************************************************************)
(* Properties of cleancaptions.                                            *)
(***************************************************************************)
\* C28: a second run of cleancaptions.clean_caption_file on a file, with the
\* same phrases and delete-phrases, leaves the content exactly as the first
\* run wrote it.
C28_CleanIsIdempotent ==
    runs = 2 => content = first_content

(***************************************************************************)
(* Properties of captionreport2.                                           *)
(***************************************************************************)
\* The counter obtained by going through all the files one after the other.
RECURSIVE SequentialCount(_, _)
SequentialCount(k, counter) ==
    IF k > Len(file_paths) THEN counter
    ELSE SequentialCount(k + 1, update(counter, attributes[file_paths[k]]))

\* C29: the chunks handed to the pool by captionreport2 partition the list
\* of .txt files (the chunks put end to end are the list of files, in which
\* no file occurs twice, and no chunk is empty), for every file count, zero
\* included, and every core count; and the merged counter equals the
\* counter of a sequential pass over all the files, in whatever order the
\* workers finish.
C29_ChunksPartitionAndMerge ==
    /\ poolpc \in {"pool", "merged"} =>
          /\ flatten(chunks) = file_paths
          /\ \A c \in 1..Len(chunks) : chunks[c] # <<>>
          /\ \A f, g \in 1..Len(file_paths) :
                f # g => file_paths[f] # file_paths[g]
    /\ poolpc = "merged" => merged = SequentialCount(1, Counter)

\* A run over eight files on one core (chunks of two files) that has
\* merged the counters, and a run over no file that has.
C29_Witness ==
    /\ poolpc = "merged"
    /\ Len(chunks) >= 2
    /\ \A c \in 1..Len(chunks) : Len(chunks[c]) = 2
    /\ \E f, g \in 1..Len(file_paths) : attributes[f] # attributes[g]
    /\ merged["y"] > 0

====
